---- MODULE Spec2Model ----
(***************************************************************************)
(* Ingestion pipeline of the document-mining backend: the upload route,    *)
(* the Redis job queue, the JobProcessor worker pool driving               *)
(* DocumentProcessor.processDocument / saveChunks, and the stuck-document  *)
(* monitor (services/queueMonitor.js).                                     *)
(*                                                                         *)
(* Time is kept as ages in minutes: for each document row, how long ago    *)
(* the timestamp column read by the monitor was written (stamp) and how    *)
(* long ago the row itself was last written (touched).  Ages advance in    *)
(* steps of TickStep and saturate just above the monitor's threshold,      *)
(* which is all the monitor's WHERE clause can tell apart.                 *)
(*                                                                         *)
(* Further down, components are followed on their own, each under its own  *)
(* specification over the same variables: the worker pool's loops          *)
(* (PoolSpec), one document through processDocument with open embedding    *)
(* outcomes (ProcessSpec), OllamaService.generateEmbedding(s) (EmbedSpec)  *)
(* and the POST /hybrid handler (HybridSpec).                              *)
(***************************************************************************)
EXTENDS Integers, Sequences, FiniteSets, TLC

\* ---- bounds of the model ----
MaxDocs == 1          \* documents that can be uploaded
MaxQueue == 3         \* length of the Redis list
MaxRuns == 2          \* processDocument runs started per document
MaxCrashes == 1       \* process exits
TickStep == 15        \* minutes that pass in one Tick
NumCallers == 2       \* invocations of monitorStuckDocuments that can be pending

\* ---- program constants ----
STUCK_THRESHOLD_MINUTES == 15
MAX_RETRIES == 3
maxConcurrentJobs == 3
batchSize == 50

Docs == 1..MaxDocs
Callers == 1..NumCallers
MaxAge == STUCK_THRESHOLD_MINUTES + TickStep

\* chunk counts the splitter can yield for an uploaded file: none, one
\* batch, more than one batch
ChunkCounts == {0, 1, batchSize + 1}

\* the documents table initDatabase creates (config/database.js)
InitDatabaseColumns == {"created_at", "updated_at"}

\* the documents tables the code can run against: initDatabase's, the
\* migration's (with file_path), and the ones the monitor's column probe
\* provides for
SchemaChoices ==
  { InitDatabaseColumns,
    {"file_path", "created_at", "updated_at"},
    {"file_path", "last_updated", "created_at"},
    {"file_path", "created_at"},
    {"file_path"} }

VARIABLES
  columns,        \* column names of the documents table
  documents,      \* documents table: id -> row
  files,          \* uploaded file: id -> number of chunks the splitter yields
  document_chunks,\* document_chunks table: id -> set of rows
  generation,     \* id -> number of processDocument runs started
  queue,          \* Redis list 'document_processing'
  activeJobs,     \* JobProcessor.activeJobs: the handlers in flight
  isMonitoring,   \* queueMonitor.js module flag
  monitor,        \* caller -> position and locals of its monitorStuckDocuments call
  crashes,        \* process exits so far
  loops,          \* JobProcessor.processQueue: loop -> position and held job
  enqueued,       \* jobs pushed to the Redis list so far
  processing,     \* locals of one DocumentProcessor.processDocument run
  embeddingCall,  \* locals of one OllamaService.generateEmbedding call
  embeddingBatch, \* locals of one OllamaService.generateEmbeddings call
  hybrid,         \* locals of one POST /hybrid request
  search,         \* locals of one POST /text or POST /semantic request
  corpus,         \* document_chunks JOIN documents as the search queries see it
  chat,           \* locals of one chat request
  db,             \* config/database.js: isConnected, the pool, the calls in flight
  processing_jobs,\* processing_jobs table: the rows in the order of their INSERT
  splitting       \* locals of one splitIntoChunks call and of the map over its result

vars == <<columns, documents, files, document_chunks, generation, queue,
          activeJobs, isMonitoring, monitor, crashes, loops, enqueued,
          processing, embeddingCall, embeddingBatch, hybrid, search,
          corpus, chat, db,
          processing_jobs, splitting>>

\* what the ingestion pipeline's steps leave alone: the state of the
\* components that are followed on their own further down
outside == <<loops, enqueued, processing, embeddingCall, embeddingBatch,
             hybrid, search, corpus, chat, db,
             processing_jobs, splitting>>

\* a component that is not running
Idle == [pc |-> "idle"]

OutsideIdle ==
  /\ loops = <<>>
  /\ enqueued = 0
  /\ processing = Idle
  /\ embeddingCall = Idle
  /\ embeddingBatch = Idle
  /\ hybrid = Idle
  /\ search = Idle
  /\ corpus = <<>>
  /\ chat = Idle
  /\ db = <<>>
  /\ processing_jobs = <<>>
  /\ splitting = Idle

Min(a, b) == IF a < b THEN a ELSE b

Older(age) == Min(age + TickStep, MaxAge)

\* queueMonitor.js: which timestamp column the sweep reads
TimestampColumn(cols) ==
  IF "last_updated" \in cols THEN "last_updated"
  ELSE IF "updated_at" \in cols THEN "updated_at"
  ELSE IF "created_at" \in cols THEN "created_at"
  ELSE "none"

timestampColumn == TimestampColumn(columns)

\* an UPDATE of a documents row: the BEFORE UPDATE trigger rewrites
\* updated_at; no other timestamp column is written by an UPDATE that does
\* not name it
Touch(row) ==
  [row EXCEPT !.touched = 0,
              !.stamp = IF timestampColumn = "updated_at" THEN 0 ELSE @]

SetStatus(d, s) ==
  IF d \in DOMAIN documents
    THEN [documents EXCEPT ![d] = Touch([@ EXCEPT !.status = s])]
    ELSE documents

IdleCall == [pc |-> "idle", stuckDocs |-> <<>>]

Init ==
  /\ columns \in SchemaChoices
  /\ documents = <<>>
  /\ files = <<>>
  /\ document_chunks = <<>>
  /\ generation = <<>>
  /\ queue = <<>>
  /\ activeJobs = {}
  /\ isMonitoring = FALSE
  /\ monitor = [m \in Callers |-> IdleCall]
  /\ crashes = 0
  /\ OutsideIdle

\* routes/documents.js POST /upload
UploadedRow ==
  LET row == [status |-> "pending", stamp |-> 0, touched |-> 0,
              chunk_count |-> 0, requeued |-> 0]
  IN row

Upload(d, n, pushed) ==
  /\ d \notin DOMAIN documents
  /\ \A e \in Docs : e < d => e \in DOMAIN documents
  /\ documents' = documents @@ (d :> UploadedRow)
  /\ files' = files @@ (d :> n)
  /\ document_chunks' = document_chunks @@ (d :> {})
  /\ generation' = generation @@ (d :> 0)
  /\ IF pushed
       THEN /\ Len(queue) < MaxQueue
            /\ queue' = Append(queue, [documentId |-> d, retryCount |-> 0])
       ELSE UNCHANGED queue
  /\ UNCHANGED <<columns, activeJobs, isMonitoring, monitor, crashes>>
  /\ UNCHANGED outside

\* the clock
Tick ==
  /\ documents' = [d \in DOMAIN documents |->
                     [documents[d] EXCEPT !.stamp = Older(@),
                                          !.touched = Older(@)]]
  /\ documents' # documents
  /\ UNCHANGED <<columns, files, document_chunks, generation, queue,
                 activeJobs, isMonitoring, monitor, crashes>>
  /\ UNCHANGED outside

\* ---- JobProcessor (services/jobProcessor.js) ----

Replace(t, u) == (activeJobs \ {t}) \cup {u}

\* processQueue: one iteration that takes a job and starts its handler.
\* handleDocumentProcessing's first UPDATE of processing_jobs matches no
\* row: nothing on this path inserts into that table.
Dequeue ==
  /\ Cardinality(activeJobs) < maxConcurrentJobs
  /\ queue # <<>>
  /\ LET job == Head(queue)
         d == job.documentId
     IN /\ generation[d] < MaxRuns
        /\ generation' = [generation EXCEPT ![d] = @ + 1]
        /\ activeJobs' = activeJobs \cup
             {[doc |-> d, gen |-> generation[d] + 1, pc |-> "start",
               retryCount |-> job.retryCount, next |-> 0]}
  /\ queue' = Tail(queue)
  /\ UNCHANGED <<columns, documents, files, document_chunks, isMonitoring,
                 monitor, crashes>>
  /\ UNCHANGED outside

\* processDocument up to saveChunks: UPDATE documents SET status =
\* 'processing', then loadDocument, splitDocuments and the embedding loop,
\* which touch no shared state; no chunk throws 'No chunks generated from
\* document'
StartProcessing(t) ==
  /\ t \in activeJobs
  /\ t.pc = "start"
  /\ documents' = SetStatus(t.doc, "processing")
  /\ activeJobs' = Replace(t, [t EXCEPT !.pc = IF files[t.doc] = 0
                                               THEN "catch" ELSE "delete"])
  /\ UNCHANGED <<columns, files, document_chunks, generation, queue,
                 isMonitoring, monitor, crashes>>
  /\ UNCHANGED outside

\* saveChunks: DELETE FROM document_chunks WHERE document_id = $1
DeleteChunks(t) ==
  /\ t \in activeJobs
  /\ t.pc = "delete"
  /\ document_chunks' = [document_chunks EXCEPT ![t.doc] = {}]
  /\ activeJobs' = Replace(t, [t EXCEPT !.pc = "insert", !.next = 0])
  /\ UNCHANGED <<columns, documents, files, generation, queue, isMonitoring,
                 monitor, crashes>>
  /\ UNCHANGED outside

\* the chunk_index values of one INSERT statement of saveChunks
Batch(t) == t.next .. (Min(t.next + batchSize, files[t.doc]) - 1)

StoredIndices(d) == {c.chunk_index : c \in document_chunks[d]}

\* UNIQUE(document_id, chunk_index): the statement inserts all its rows or
\* fails as a whole
BatchCollides(t) == Batch(t) \cap StoredIndices(t.doc) # {}

\* saveChunks: one INSERT of up to batchSize rows
InsertBatch(t) ==
  /\ t \in activeJobs
  /\ t.pc = "insert"
  /\ IF BatchCollides(t)
       THEN /\ activeJobs' = Replace(t, [t EXCEPT !.pc = "catch"])
            /\ UNCHANGED document_chunks
       ELSE /\ document_chunks' = [document_chunks EXCEPT ![t.doc] = @ \cup
                 {[chunk_index |-> i, gen |-> t.gen] : i \in Batch(t)}]
            /\ activeJobs' = Replace(t,
                 [t EXCEPT !.next = @ + batchSize,
                           !.pc = IF t.next + batchSize >= files[t.doc]
                                  THEN "complete" ELSE "insert"])
  /\ UNCHANGED <<columns, documents, files, generation, queue, isMonitoring,
                 monitor, crashes>>
  /\ UNCHANGED outside

\* processDocument: UPDATE documents SET status = 'completed', chunk_count;
\* handleDocumentProcessing then marks processing_jobs (no row) and resolves
Complete(t) ==
  /\ t \in activeJobs
  /\ t.pc = "complete"
  /\ documents' = [documents EXCEPT ![t.doc] =
       Touch([@ EXCEPT !.status = "completed",
                       !.chunk_count = files[t.doc]])]
  /\ activeJobs' = Replace(t, [t EXCEPT !.pc = "fulfilled"])
  /\ UNCHANGED <<columns, files, document_chunks, generation, queue,
                 isMonitoring, monitor, crashes>>
  /\ UNCHANGED outside

\* processDocument's catch: UPDATE documents SET status = 'failed', rethrow;
\* handleDocumentProcessing's catch marks processing_jobs (no row) and
\* rethrows: the handler rejects, the job object unchanged
CatchFailed(t) ==
  /\ t \in activeJobs
  /\ t.pc = "catch"
  /\ documents' = SetStatus(t.doc, "failed")
  /\ activeJobs' = Replace(t, [t EXCEPT !.pc = "rejected"])
  /\ UNCHANGED <<columns, files, document_chunks, generation, queue,
                 isMonitoring, monitor, crashes>>
  /\ UNCHANGED outside

\* the job id deleted in .then instead of .finally: a rejected handler's id
\* stays
SettleFulfilledOnly(t) ==
  /\ t \in activeJobs
  /\ t.pc = "fulfilled"
  /\ activeJobs' = activeJobs \ {t}
  /\ UNCHANGED <<columns, documents, files, document_chunks, generation,
                 queue, isMonitoring, monitor, crashes>>
  /\ UNCHANGED outside

\* processQueue: .then / .catch only log, .finally deletes the job id;
\* nothing is pushed back onto the queue
Settle(t) ==
  /\ t \in activeJobs
  /\ t.pc \in {"fulfilled", "rejected"}
  /\ activeJobs' = activeJobs \ {t}
  /\ UNCHANGED <<columns, documents, files, document_chunks, generation,
                 queue, isMonitoring, monitor, crashes>>
  /\ UNCHANGED outside

\* ---- stuck-document monitor (services/queueMonitor.js) ----

SelectLimit == 10

SetCall(m, c) == [monitor EXCEPT ![m] = c]

\* startMonitoring: the loop calls monitorStuckDocuments
MonitorCall(m) ==
  /\ monitor[m].pc = "idle"
  /\ monitor' = SetCall(m, [IdleCall EXCEPT !.pc = "entry"])
  /\ UNCHANGED <<columns, documents, files, document_chunks, generation,
                 queue, activeJobs, isMonitoring, crashes>>
  /\ UNCHANGED outside

\* the guard without its early return: the flag is set but not consulted
MonitorGuardUnchecked(m) ==
  /\ monitor[m].pc = "entry"
  /\ isMonitoring' = TRUE
  /\ monitor' = SetCall(m, [IdleCall EXCEPT !.pc = "select"])
  /\ UNCHANGED <<columns, documents, files, document_chunks, generation,
                 queue, activeJobs, crashes>>
  /\ UNCHANGED outside

\* if (isMonitoring) return; ... isMonitoring = true  (no await in between)
MonitorGuard(m) ==
  /\ monitor[m].pc = "entry"
  /\ IF isMonitoring
       THEN /\ monitor' = SetCall(m, IdleCall)
            /\ UNCHANGED isMonitoring
       ELSE /\ isMonitoring' = TRUE
            /\ monitor' = SetCall(m, [IdleCall EXCEPT !.pc = "select"])
  /\ UNCHANGED <<columns, documents, files, document_chunks, generation,
                 queue, activeJobs, crashes>>
  /\ UNCHANGED outside

\* WHERE (status = 'pending' OR status = 'processing')
\*   AND <timestampColumn> < NOW() - INTERVAL '15 minutes'
IsStuck(d) ==
  /\ documents[d].status \in {"pending", "processing"}
  /\ documents[d].stamp > STUCK_THRESHOLD_MINUTES

StuckSet == {d \in DOMAIN documents : IsStuck(d)}

\* ORDER BY <timestampColumn> ASC LIMIT 10: oldest first, ties in any order
Orderings(S) ==
  {s \in [1..Cardinality(S) -> S] :
     /\ \A i, j \in 1..Cardinality(S) : i # j => s[i] # s[j]
     /\ \A i, j \in 1..Cardinality(S) :
          i < j => documents[s[i]].stamp >= documents[s[j]].stamp}

Limit(s) == SubSeq(s, 1, Min(Len(s), SelectLimit))

\* the ways out of the sweep taken as if finally did not run on them: the
\* flag stays set
MonitorSelectKeepsFlag(m) ==
  /\ monitor[m].pc = "select"
  /\ IF \/ timestampColumn = "none"
        \/ "file_path" \notin columns
        \/ StuckSet = {}
       THEN /\ monitor' = SetCall(m, IdleCall)
            /\ UNCHANGED isMonitoring
       ELSE /\ \E s \in Orderings(StuckSet) :
                 monitor' = SetCall(m, [pc |-> "update", stuckDocs |-> Limit(s)])
            /\ UNCHANGED isMonitoring
  /\ UNCHANGED <<columns, documents, files, document_chunks, generation,
                 queue, activeJobs, crashes>>
  /\ UNCHANGED outside

\* the information_schema probe and the SELECT of the stuck rows. With no
\* timestamp column the sweep returns; the SELECT names d.file_path, so it
\* raises when that column is missing (outer catch). finally clears the
\* flag on every way out.
MonitorSelect(m) ==
  /\ monitor[m].pc = "select"
  /\ IF \/ timestampColumn = "none"
        \/ "file_path" \notin columns
        \/ StuckSet = {}
       THEN /\ monitor' = SetCall(m, IdleCall)
            /\ isMonitoring' = FALSE
       ELSE /\ \E s \in Orderings(StuckSet) :
                 monitor' = SetCall(m, [pc |-> "update", stuckDocs |-> Limit(s)])
            /\ UNCHANGED isMonitoring
  /\ UNCHANGED <<columns, documents, files, document_chunks, generation,
                 queue, activeJobs, crashes>>
  /\ UNCHANGED outside

\* UPDATE documents SET status = 'pending' [, last_updated = NOW() |
\* , updated_at = NOW()] WHERE id = $2
ResetRow(row) ==
  [Touch(row) EXCEPT !.status = "pending",
                     !.stamp = IF "last_updated" \in columns
                                  \/ "updated_at" \in columns
                               THEN 0 ELSE @]

MonitorUpdate(m) ==
  /\ monitor[m].pc = "update"
  /\ LET d == Head(monitor[m].stuckDocs)
     IN documents' = [documents EXCEPT ![d] = ResetRow(@)]
  /\ monitor' = SetCall(m, [monitor[m] EXCEPT !.pc = "push"])
  /\ UNCHANGED <<columns, files, document_chunks, generation, queue,
                 activeJobs, isMonitoring, crashes>>
  /\ UNCHANGED outside

\* the job the monitor pushes for a stuck row
RequeueJob(d) == [documentId |-> d, retryCount |-> 1]

\* addToQueue('document_processing', ...), then the next row or the end of
\* the sweep (finally clears the flag)
MonitorPush(m) ==
  /\ monitor[m].pc = "push"
  /\ Len(queue) < MaxQueue
  /\ LET d == Head(monitor[m].stuckDocs)
         rest == Tail(monitor[m].stuckDocs)
     IN /\ queue' = Append(queue, RequeueJob(d))
        /\ documents' = [documents EXCEPT ![d].requeued =
                           Min(@ + 1, MAX_RETRIES + 1)]
        /\ IF rest = <<>>
             THEN /\ monitor' = SetCall(m, IdleCall)
                  /\ isMonitoring' = FALSE
             ELSE /\ monitor' = SetCall(m, [pc |-> "update", stuckDocs |-> rest])
                  /\ UNCHANGED isMonitoring
  /\ UNCHANGED <<columns, files, document_chunks, generation, activeJobs,
                 crashes>>
  /\ UNCHANGED outside

\* ---- process exit (server.js gracefulShutdown, uncaughtException) and
\* restart: memory is lost, the store and the Redis list survive ----
Crash ==
  /\ crashes < MaxCrashes
  /\ crashes' = crashes + 1
  /\ activeJobs' = {}
  /\ isMonitoring' = FALSE
  /\ monitor' = [m \in Callers |-> IdleCall]
  /\ UNCHANGED <<columns, documents, files, document_chunks, generation,
                 queue>>
  /\ UNCHANGED outside

Next ==
  \/ \E d \in Docs, n \in ChunkCounts, pushed \in BOOLEAN : Upload(d, n, pushed)
  \/ Tick
  \/ Dequeue
  \/ \E t \in activeJobs : StartProcessing(t)
  \/ \E t \in activeJobs : DeleteChunks(t)
  \/ \E t \in activeJobs : InsertBatch(t)
  \/ \E t \in activeJobs : Complete(t)
  \/ \E t \in activeJobs : CatchFailed(t)
  \/ \E t \in activeJobs : Settle(t)
  \/ \E m \in Callers : MonitorCall(m)
  \/ \E m \in Callers : MonitorGuard(m)
  \/ \E m \in Callers : MonitorSelect(m)
  \/ \E m \in Callers : MonitorUpdate(m)
  \/ \E m \in Callers : MonitorPush(m)
  \/ Crash

Spec == Init /\ [][Next]_vars

TypeOK ==
  /\ columns \in SchemaChoices
  /\ DOMAIN documents \subseteq Docs
  /\ Len(queue) <= MaxQueue
  /\ Cardinality(activeJobs) <= maxConcurrentJobs

\* ---- fairness: the clock runs, the monitoring loop of server.js keeps
\* calling, and every started await continues ----
Fairness ==
  /\ WF_vars(Tick)
  /\ WF_vars(Dequeue)
  /\ WF_vars(\E t \in activeJobs : StartProcessing(t))
  /\ WF_vars(\E t \in activeJobs : DeleteChunks(t))
  /\ WF_vars(\E t \in activeJobs : InsertBatch(t))
  /\ WF_vars(\E t \in activeJobs : Complete(t))
  /\ WF_vars(\E t \in activeJobs : CatchFailed(t))
  /\ WF_vars(\E t \in activeJobs : Settle(t))
  /\ \A m \in Callers :
       /\ WF_vars(MonitorCall(m))
       /\ WF_vars(MonitorGuard(m))
       /\ WF_vars(MonitorSelect(m))
       /\ WF_vars(MonitorUpdate(m))
       /\ WF_vars(MonitorPush(m))

FairSpec == Init /\ [][Next]_vars /\ Fairness

\* ---- properties ----

Status(d) == documents[d].status

\* the step is the monitor's UPDATE of row d
MonitorResets(d) ==
  \E m \in Callers :
    /\ monitor[m].pc = "update"
    /\ monitor'[m].pc = "push"
    /\ Head(monitor[m].stuckDocs) = d

\* C1: a document's status changes only pending -> processing,
\* processing -> completed and processing -> failed; the one other change is
\* the monitor's reset to pending (of a failed or stalled document), and a
\* document is requeued by the monitor at most MAX_RETRIES times.
C1_StatusTransitions ==
  [][\A d \in DOMAIN documents :
       /\ \/ Status(d)' = Status(d)
          \/ Status(d) = "pending" /\ Status(d)' = "processing"
          \/ Status(d) = "processing" /\ Status(d)' \in {"completed", "failed"}
          \/ /\ Status(d) \in {"failed", "processing"}
             /\ Status(d)' = "pending"
             /\ MonitorResets(d)
       /\ documents[d].requeued' <= MAX_RETRIES]_vars

\* C2: a failed run leaves the job's retry_count at its previous value plus
\* one, and no job whose retry_count exceeds MAX_RETRIES is started.
C2_RetryCountIncrements ==
  [][/\ \A t \in activeJobs :
          t.pc = "catch" =>
            \A u \in activeJobs' :
              (u.doc = t.doc /\ u.gen = t.gen /\ u.pc = "rejected")
                => u.retryCount = t.retryCount + 1
     /\ \A u \in activeJobs' \ activeJobs :
          u.pc = "start" => u.retryCount <= MAX_RETRIES]_vars

\* the rejected handler of task t settles in this step
SettlesRejected(t) ==
  /\ t \in activeJobs
  /\ t.pc = "rejected"
  /\ t \notin activeJobs'
  /\ crashes' = crashes

\* C3: when a handler has raised, the job is pushed back carrying the
\* incremented count as long as that count is at most MAX_RETRIES, and is
\* not pushed once it is beyond.
C3_FailedJobRequeued ==
  [][\A t \in activeJobs :
       SettlesRejected(t) =>
         IF t.retryCount + 1 <= MAX_RETRIES
           THEN \E i \in 1..Len(queue') :
                  queue'[i] = [documentId |-> t.doc,
                               retryCount |-> t.retryCount + 1]
           ELSE queue' = queue]_vars

\* document d is marked processing and no handler is running it
Orphaned(d) ==
  /\ d \in DOMAIN documents
  /\ Status(d) = "processing"
  /\ \A t \in activeJobs : t.doc # d

\* C4: a document left in processing by a run that was cut off does not
\* stay there: the monitor eventually takes it out of processing (stated
\* for the documents table initDatabase creates).
C4_OrphanRecovered ==
  \A d \in Docs :
    (columns = InitDatabaseColumns /\ Orphaned(d))
      ~> (d \in DOMAIN documents /\ Status(d) # "processing")

\* the same with the columns the sweep's SELECT needs in place
OrphanRecoveredWithColumns ==
  \A d \in Docs :
    ("file_path" \in columns /\ timestampColumn # "none" /\ Orphaned(d))
      ~> (d \in DOMAIN documents /\ Status(d) # "processing")

\* the rows of one complete chunking pass g of document d
GenerationRows(d, g) ==
  {[chunk_index |-> i, gen |-> g] : i \in 0..(files[d] - 1)}

CompleteGeneration(d) ==
  \E g \in 1..MaxRuns : document_chunks[d] = GenerationRows(d, g)

\* C5: reprocessing replaces a document's chunk set atomically: once the
\* complete set of one chunking pass is stored, every change of the stored
\* set leaves the complete set of one pass, never an emptied, partial or
\* mixed one for other operations to read.
C5_AtomicReplace ==
  [][\A d \in DOMAIN documents :
       (CompleteGeneration(d) /\ document_chunks[d]' # document_chunks[d])
         => \E g \in 1..MaxRuns :
              document_chunks[d]' = GenerationRows(d, g)]_vars

\* C6: the stored chunk indices of every document are exactly 0..n-1.
C6_ContiguousIndices ==
  \A d \in DOMAIN documents :
    /\ StoredIndices(d) = 0..(Cardinality(document_chunks[d]) - 1)
    /\ Cardinality(StoredIndices(d)) = Cardinality(document_chunks[d])

\* the callers that are past the isMonitoring guard
Sweeping == {m \in Callers : monitor[m].pc \in {"select", "update", "push"}}

C8_NoRequeueInsideWindow ==
  [][\A d \in DOMAIN documents :
       MonitorResets(d) => documents[d].touched > STUCK_THRESHOLD_MINUTES]_vars

\* the retryCount of the latest job of document d still waiting in the queue
QueuedIndices(d) == {i \in 1..Len(queue) : queue[i].documentId = d}

LatestQueued(d) ==
  queue[CHOOSE i \in QueuedIndices(d) : \A j \in QueuedIndices(d) : j <= i]

\* the step is the monitor's push of a job for document d
MonitorRequeues(d) ==
  \E m \in Callers :
    /\ monitor[m].pc = "push"
    /\ monitor'[m].pc # "push"
    /\ Head(monitor[m].stuckDocs) = d
    /\ Len(queue') = Len(queue) + 1

\* C9: the job the monitor pushes for a stuck document carries the
\* document's previous retryCount plus one and the document is pending.
C9_RequeueIncrementsRetryCount ==
  [][\A d \in DOMAIN documents :
       (MonitorRequeues(d) /\ QueuedIndices(d) # {})
         => /\ queue'[Len(queue')].documentId = d
            /\ queue'[Len(queue')].retryCount = LatestQueued(d).retryCount + 1]_vars

\* C10: no requeued job carries a retryCount above MAX_RETRIES and no
\* document is requeued by the monitor more than MAX_RETRIES times.
C10_RequeueBounded ==
  /\ \A i \in 1..Len(queue) : queue[i].retryCount <= MAX_RETRIES
  /\ \A d \in DOMAIN documents : documents[d].requeued <= MAX_RETRIES

\* ======================================================================
\* The worker pool on its own: JobProcessor.start and the processQueue
\* loops it spawns, with the handlers reduced to their settling.
\* ======================================================================

MaxJobs == 5          \* jobs pushed to the queue

\* server.js calls initializeJobProcessor from startServer and again from
\* normalStart: JobProcessor.start runs up to twice on the one instance
StartCalls == 2

\* the pipeline's own state, at rest
PipelineIdle ==
  /\ columns = InitDatabaseColumns
  /\ documents = <<>>
  /\ files = <<>>
  /\ document_chunks = <<>>
  /\ generation = <<>>
  /\ queue = <<>>
  /\ activeJobs = {}
  /\ isMonitoring = FALSE
  /\ monitor = [m \in Callers |-> IdleCall]
  /\ crashes = 0

PoolInit == PipelineIdle /\ OutsideIdle

\* what the pool's steps leave alone
poolRest == <<columns, documents, files, document_chunks, generation,
              isMonitoring, monitor, crashes, processing, embeddingCall,
              embeddingBatch, hybrid, search, corpus, chat, db,
              processing_jobs, splitting>>

\* JobProcessor.start: processQueue is called without await, a new loop
\* runs from its first statement
PoolStart ==
  /\ Len(loops) < StartCalls
  /\ loops' = Append(loops, [pc |-> "check", caught |-> FALSE])
  /\ UNCHANGED <<queue, activeJobs, enqueued>>
  /\ UNCHANGED poolRest

\* addToQueue('document_processing', job) by a client of the pool
PoolEnqueue ==
  /\ enqueued < MaxJobs
  /\ Len(queue) < MaxQueue
  /\ enqueued' = enqueued + 1
  /\ queue' = Append(queue, [documentId |-> enqueued + 1, retryCount |-> 0])
  /\ UNCHANGED <<loops, activeJobs>>
  /\ UNCHANGED poolRest

SetLoop(l, pc) == [loops EXCEPT ![l].pc = pc]

\* processQueue: the test of activeJobs.size; the loop then awaits either
\* sleep(1000) or getFromQueue
PoolCheck(l) ==
  /\ loops[l].pc = "check"
  /\ loops' = SetLoop(l, IF Cardinality(activeJobs) >= maxConcurrentJobs
                           THEN "sleep" ELSE "pop")
  /\ UNCHANGED <<queue, activeJobs, enqueued>>
  /\ UNCHANGED poolRest

\* processQueue: getFromQueue resolves; with a job, the loop adds its id to
\* activeJobs and calls the handler, without awaiting it
PoolPop(l) ==
  /\ loops[l].pc = "pop"
  /\ IF queue = <<>>
       THEN /\ loops' = SetLoop(l, "sleep")
            /\ UNCHANGED <<queue, activeJobs>>
       ELSE /\ queue' = Tail(queue)
            /\ activeJobs' = activeJobs \cup
                 {[id |-> Head(queue).documentId, pc |-> "running"]}
            /\ loops' = SetLoop(l, "check")
  /\ UNCHANGED enqueued
  /\ UNCHANGED poolRest

\* processQueue: getFromQueue rejects (the Redis connection failed); the
\* catch logs and awaits sleep(1000), inside the while (true). caught
\* records that the loop has been through its catch
PoolPopRaises(l) ==
  /\ loops[l].pc = "pop"
  /\ loops' = [loops EXCEPT ![l] = [pc |-> "sleep", caught |-> TRUE]]
  /\ UNCHANGED <<queue, activeJobs, enqueued>>
  /\ UNCHANGED poolRest

\* processQueue: sleep(1000) ends, continue
PoolSleep(l) ==
  /\ loops[l].pc = "sleep"
  /\ loops' = SetLoop(l, "check")
  /\ UNCHANGED <<queue, activeJobs, enqueued>>
  /\ UNCHANGED poolRest

\* the promise handler(job) returned settles
PoolHandler(j, outcome) ==
  /\ j \in activeJobs
  /\ j.pc = "running"
  /\ activeJobs' = Replace(j, [j EXCEPT !.pc = outcome])
  /\ UNCHANGED <<queue, loops, enqueued>>
  /\ UNCHANGED poolRest

PoolNext ==
  \/ PoolStart
  \/ PoolEnqueue
  \/ \E l \in DOMAIN loops : PoolCheck(l)
  \/ \E l \in DOMAIN loops : PoolPop(l)
  \/ \E l \in DOMAIN loops : PoolPopRaises(l)
  \/ \E l \in DOMAIN loops : PoolSleep(l)
  \/ \E j \in activeJobs, outcome \in {"fulfilled", "rejected"} :
       PoolHandler(j, outcome)
  \/ \E j \in activeJobs : Settle(j)

PoolSpec == PoolInit /\ [][PoolNext]_vars

\* the handlers in execution
Running == {j \in activeJobs : j.pc = "running"}

\* C11: at every moment at most maxConcurrentJobs jobs are being executed
\* by the worker pool, and no handler is started while activeJobs already
\* holds that many entries
C11_PoolBounded ==
  /\ Cardinality(Running) <= maxConcurrentJobs
  /\ Cardinality(activeJobs) <= maxConcurrentJobs

\* ======================================================================
\* Properties of the pipeline and of the pool, continued
\* ======================================================================

\* the step is the last write of run t: the catch block's UPDATE to
\* 'failed', or the UPDATE to 'completed'
EndsFailed(t) ==
  /\ t.pc = "catch"
  /\ activeJobs' = Replace(t, [t EXCEPT !.pc = "rejected"])

EndsCompleted(t) ==
  /\ t.pc = "complete"
  /\ activeJobs' = Replace(t, [t EXCEPT !.pc = "fulfilled"])

\* C12: a run ends by marking the document completed whenever chunking
\* succeeded, and marks it failed if and only if extraction or chunking
\* raised
C12_FailedOnlyIfChunkingRaised ==
  [][\A t \in activeJobs :
       /\ EndsFailed(t) => files[t.doc] = 0
       /\ EndsCompleted(t) =>
            files[t.doc] > 0 /\ Status(t.doc)' = "completed"]_vars

\* C14: when chunking yields zero fragments the run ends with the document
\* completed and chunk_count = 0
C14_ZeroFragmentsCompleted ==
  [][\A t \in activeJobs :
       (files[t.doc] = 0 /\ (EndsFailed(t) \/ EndsCompleted(t))) =>
         /\ Status(t.doc)' = "completed"
         /\ documents[t.doc].chunk_count' = 0]_vars

\* ======================================================================
\* One document through DocumentProcessor.processDocument, run after run,
\* with the outcome of every generateEmbedding call and of every storage
\* statement left open.
\* ======================================================================

MaxChunks == 3        \* chunks the splitter yields

TheDoc == 1

ProcessInit ==
  /\ columns = InitDatabaseColumns
  /\ documents = (TheDoc :> UploadedRow)
  /\ files = (TheDoc :> 0)
  /\ document_chunks = (TheDoc :> {})
  /\ generation = (TheDoc :> 0)
  /\ queue = <<>>
  /\ activeJobs = {}
  /\ isMonitoring = FALSE
  /\ monitor = [m \in Callers |-> IdleCall]
  /\ crashes = 0
  /\ OutsideIdle

\* what the steps of processDocument leave alone
processRest == <<columns, queue, activeJobs, isMonitoring, monitor, crashes,
                 loops, enqueued, embeddingCall, embeddingBatch, hybrid,
                 search, corpus, chat, db,
                 processing_jobs, splitting>>

\* what the run that has ended was given (the chunks of the text, the
\* outcome of each embedding call, the statement that raised) and the rows
\* it left; kept to compare a later run with it
Ended ==
  IF processing.pc = "idle" THEN [raised |-> "never ran"]
  ELSE [chunks |-> files[TheDoc], outcomes |-> processing.outcomes,
        raised |-> processing.raised, i |-> processing.i,
        status |-> documents[TheDoc].status,
        chunk_count |-> documents[TheDoc].chunk_count,
        document_chunks |-> document_chunks[TheDoc]]

\* processDocument is called: UPDATE documents SET status = 'processing'
ProcessCall ==
  /\ processing.pc \in {"idle", "fulfilled", "rejected"}
  /\ generation[TheDoc] < MaxRuns
  /\ generation' = [generation EXCEPT ![TheDoc] = @ + 1]
  /\ documents' = SetStatus(TheDoc, "processing")
  /\ processing' = [pc |-> "load", i |-> 0, outcomes |-> <<>>,
                    processedChunks |-> <<>>, raised |-> "nothing",
                    previous |-> Ended]
  /\ UNCHANGED <<files, document_chunks>>
  /\ UNCHANGED processRest

\* loadDocument and splitDocuments: either raises, or the splitter returns
\* n chunks; none is an error
ProcessLoad(n, ok) ==
  /\ processing.pc = "load"
  /\ files' = [files EXCEPT ![TheDoc] = IF ok THEN n ELSE 0]
  /\ processing' = IF ok /\ n > 0
                     THEN [processing EXCEPT !.pc = "embed"]
                     ELSE [processing EXCEPT !.pc = "catch",
                                             !.raised = "chunking"]
  /\ UNCHANGED <<documents, document_chunks, generation>>
  /\ UNCHANGED processRest

\* the catch block of the loop body: an element with a null embedding is
\* pushed all the same (shown here with the catch only logging)
PushChunkUnlessFailed(chunks, i, ok) ==
  IF ok THEN Append(chunks, [chunkIndex |-> i, embedding |-> "vector"])
        ELSE chunks

\* processedChunks.push in the loop body for chunk i: generateEmbedding
\* returned a vector (ok) or threw
PushChunk(chunks, i, ok) ==
  Append(chunks, [chunkIndex |-> i,
                  embedding |-> IF ok THEN "vector" ELSE "null"])

\* the loop body for chunk i
ProcessEmbed(ok) ==
  /\ processing.pc = "embed"
  /\ LET i == processing.i
     IN processing' =
          [processing EXCEPT
             !.outcomes = Append(@, ok),
             !.processedChunks = PushChunk(@, i, ok),
             !.i = i + 1,
             !.pc = IF i + 1 < files[TheDoc] THEN "embed" ELSE "delete"]
  /\ UNCHANGED <<documents, files, document_chunks, generation>>
  /\ UNCHANGED processRest

\* a storage statement raises: saveChunks rethrows, processDocument's catch
\* takes over
ProcessStoreRaises ==
  /\ processing.pc \in {"delete", "insert"}
  /\ processing' = [processing EXCEPT !.pc = "catch", !.raised = "storage"]
  /\ UNCHANGED <<documents, files, document_chunks, generation>>
  /\ UNCHANGED processRest

\* saveChunks: DELETE FROM document_chunks WHERE document_id = $1
ProcessDelete ==
  /\ processing.pc = "delete"
  /\ document_chunks' = [document_chunks EXCEPT ![TheDoc] = {}]
  /\ processing' = [processing EXCEPT !.pc = "insert", !.i = 0]
  /\ UNCHANGED <<documents, files, generation>>
  /\ UNCHANGED processRest

\* saveChunks: one INSERT of chunks.slice(i, i + batchSize)
ProcessInsert ==
  /\ processing.pc = "insert"
  /\ LET i == processing.i
         chunks == processing.processedChunks
         batch == {k \in 1..Len(chunks) : i < k /\ k <= i + batchSize}
     IN /\ document_chunks' = [document_chunks EXCEPT ![TheDoc] = @ \cup
             {[chunk_index |-> chunks[k].chunkIndex,
               embedding |-> chunks[k].embedding] : k \in batch}]
        /\ processing' = [processing EXCEPT
             !.i = i + batchSize,
             !.pc = IF i + batchSize < Len(chunks) THEN "insert"
                                                   ELSE "complete"]
  /\ UNCHANGED <<documents, files, generation>>
  /\ UNCHANGED processRest

\* UPDATE documents SET status = 'completed', chunk_count = length
ProcessComplete ==
  /\ processing.pc = "complete"
  /\ documents' = [documents EXCEPT ![TheDoc] =
       Touch([@ EXCEPT !.status = "completed",
                       !.chunk_count = Len(processing.processedChunks)])]
  /\ processing' = [processing EXCEPT !.pc = "fulfilled"]
  /\ UNCHANGED <<files, document_chunks, generation>>
  /\ UNCHANGED processRest

\* the catch block: UPDATE documents SET status = 'failed', rethrow
ProcessCatch ==
  /\ processing.pc = "catch"
  /\ documents' = SetStatus(TheDoc, "failed")
  /\ processing' = [processing EXCEPT !.pc = "rejected"]
  /\ UNCHANGED <<files, document_chunks, generation>>
  /\ UNCHANGED processRest

ProcessNext ==
  \/ ProcessCall
  \/ \E n \in 0..MaxChunks, ok \in BOOLEAN : ProcessLoad(n, ok)
  \/ \E ok \in BOOLEAN : ProcessEmbed(ok)
  \/ ProcessStoreRaises
  \/ ProcessDelete
  \/ ProcessInsert
  \/ ProcessComplete
  \/ ProcessCatch

ProcessSpec == ProcessInit /\ [][ProcessNext]_vars

\* the row chunk k (counted from 1) of the current run must end up as
ExpectedRow(k) ==
  [chunk_index |-> k - 1,
   embedding |-> IF processing.outcomes[k] THEN "vector" ELSE "null"]

\* C13: an embedding failure never blocks persistence: once the embedding
\* loop is over every chunk is handed to saveChunks, with the vector when
\* the client succeeded and null when it failed, and a run that returns has
\* stored exactly these rows
C13_PersistedDespiteEmbeddingFailure ==
  /\ processing.pc \in {"delete", "insert", "complete", "fulfilled"} =>
       /\ Len(processing.outcomes) = files[TheDoc]
       /\ Len(processing.processedChunks) = files[TheDoc]
       /\ \A k \in 1..files[TheDoc] :
            /\ processing.processedChunks[k].chunkIndex = k - 1
            /\ processing.processedChunks[k].embedding = ExpectedRow(k).embedding
  /\ processing.pc \in {"complete", "fulfilled"} =>
       document_chunks[TheDoc] = {ExpectedRow(k) : k \in 1..files[TheDoc]}

\* a run returned after one embedding call succeeded and another failed
C13_Witness ==
  /\ processing.pc = "fulfilled"
  /\ \E k, l \in 1..Len(processing.outcomes) :
       processing.outcomes[k] /\ ~processing.outcomes[l]
  /\ \E r \in document_chunks[TheDoc] : r.embedding = "null"

\* ======================================================================
\* OllamaService (config/ollama.js): generateEmbedding, one call at a time
\* against a service that may answer anything, and generateEmbeddings on
\* top of it.
\*
\* A text matters to the code only through the substrings the catch block
\* looks for, so an error message is kept as the set of those substrings it
\* contains, and a response body as that set plus whether it is empty.
\* ======================================================================

MaxTexts == 2         \* length of the array given to generateEmbeddings

maxRetries == 3

\* the substrings for which the catch block gives up retrying
Markers == {"Invalid input", "Unauthorized", "403"}

Bodies ==
  { [empty |-> TRUE, has |-> {}],
    [empty |-> FALSE, has |-> {}],
    [empty |-> FALSE, has |-> {"403"}],
    [empty |-> FALSE, has |-> {"Unauthorized"}] }

NoBody == [empty |-> TRUE, has |-> {}]

\* JSON layouts of a 200 answer: result.embedding an array, an empty array;
\* data[0].embedding; embeddings[0]; none of them; "text" is an answer whose
\* content type is not JSON
Layouts == {"embedding", "empty", "data", "embeddings", "other", "text"}

\* status 0 stands for fetch itself rejecting (refused, reset, aborted by
\* the timeout)
Responses ==
  {[status |-> 0, body |-> NoBody, layout |-> "none"]}
  \cup {[status |-> s, body |-> b, layout |-> "none"] :
          s \in {401, 403, 404, 500}, b \in Bodies}
  \cup {[status |-> 200, body |-> NoBody, layout |-> l] :
          l \in Layouts \ {"text"}}
  \cup {[status |-> 200, body |-> b, layout |-> "text"] : b \in Bodies}

\* the arguments a caller can pass as text
Texts ==
  { [type |-> "string", value |-> "some text"],
    [type |-> "string", value |-> ""],
    [type |-> "string", value |-> "  "],
    [type |-> "object", value |-> "null"],
    [type |-> "number", value |-> "7"] }

\* !text
Falsy(text) == text.value \in {"", "null"}

\* text.trim()
Trim(text) == IF text.value = "  " THEN "" ELSE text.value

\* the two input checks ahead of the retry loop
InvalidInput(text) ==
  \/ Falsy(text)
  \/ text.type # "string"
  \/ Trim(text) = ""

Thrown(message) == [name |-> "Error", message |-> message, aggregated |-> FALSE]

NoError == [name |-> "none", message |-> {}, aggregated |-> FALSE]

\* response.statusText, and the digits of response.status
StatusText(status) == IF status = 401 THEN {"Unauthorized"} ELSE {}

StatusDigits(status) == IF status = 403 THEN {"403"} ELSE {}

\* new Error(`HTTP ${response.status}: ${errorText || response.statusText}`)
HttpError(r) ==
  Thrown(StatusDigits(r.status)
         \cup (IF r.body.empty THEN StatusText(r.status) ELSE r.body.has))

\* the try block without its test for a 404: the answer is thrown like any
\* other error status
PrimaryWithoutAlternative(r) ==
  IF r.status = 0 THEN [do |-> "throw", error |-> Thrown({})]
  ELSE IF r.status # 200 THEN [do |-> "throw", error |-> HttpError(r)]
  ELSE IF r.layout = "text" THEN [do |-> "throw", error |-> Thrown(r.body.has)]
  ELSE IF r.layout \in {"embedding", "data", "embeddings"}
         THEN [do |-> "return", error |-> NoError]
  ELSE [do |-> "throw", error |-> Thrown({})]

\* what one pass through the try block does with the answer of
\* POST /api/embeddings: "return", "alternative" (a 404), or the error thrown
Primary(r) ==
  IF r.status = 0 THEN [do |-> "throw", error |-> Thrown({})]
  ELSE IF r.status = 404 THEN [do |-> "alternative", error |-> NoError]
  ELSE IF r.status # 200 THEN [do |-> "throw", error |-> HttpError(r)]
  ELSE IF r.layout = "text" THEN [do |-> "throw", error |-> Thrown(r.body.has)]
  ELSE IF r.layout \in {"embedding", "data", "embeddings"}
         THEN [do |-> "return", error |-> NoError]
  ELSE [do |-> "throw", error |-> Thrown({})]

\* tryAlternativeEmbeddingEndpoint with the answer of POST /api/embed
Alternative(r) ==
  IF r.status = 0 THEN [do |-> "throw", error |-> Thrown({})]
  ELSE IF r.status # 200
         THEN [do |-> "throw", error |-> Thrown(StatusDigits(r.status))]
  ELSE IF r.layout \in {"embedding", "empty"}
         THEN [do |-> "return", error |-> NoError]
  ELSE [do |-> "throw", error |-> Thrown({})]

\* the catch block's test for errors that are not retried
NoRetry(error) == error.message \cap Markers # {}

embedRest == <<columns, documents, files, document_chunks, generation, queue,
               activeJobs, isMonitoring, monitor, crashes, loops, enqueued,
               processing, hybrid, search, corpus, chat, db,
               processing_jobs, splitting>>

EmbedInit == PipelineIdle /\ OutsideIdle

\* generateEmbedding(text) up to the first fetch
Enter(text, caller) ==
  IF InvalidInput(text)
    THEN [pc |-> "thrown", caller |-> caller, text |-> text, attempt |-> 0,
          fetches |-> 0, statuses |-> <<>>, response |-> <<>>, log |-> <<>>,
          lastError |-> NoError, error |-> Thrown({"Invalid input"})]
    ELSE [pc |-> "fetch", caller |-> caller, text |-> text, attempt |-> 1,
          fetches |-> 0, statuses |-> <<>>, response |-> <<>>, log |-> <<>>,
          lastError |-> NoError, error |-> NoError]

\* the catch block and the loop's next turn: rethrow, retry after the
\* delay, or leave the loop and throw the aggregated error
Catch(call, error) ==
  IF NoRetry(error)
    THEN [call EXCEPT !.pc = "thrown", !.lastError = error, !.error = error]
  ELSE IF call.attempt < maxRetries
    THEN [call EXCEPT !.pc = "fetch", !.lastError = error,
                      !.attempt = @ + 1]
  ELSE [call EXCEPT !.pc = "thrown", !.lastError = error,
                    !.error = [name |-> "Error", message |-> error.message,
                               aggregated |-> TRUE]]

\* the endpoint the call is waiting for
Endpoint(call) ==
  IF call.pc = "alternative" THEN "/api/embed" ELSE "/api/embeddings"

\* the answer r has arrived; log keeps, for every fetch made, the attempt it
\* belongs to and the endpoint it went to
Received(call, r) ==
  [call EXCEPT !.fetches = @ + 1, !.statuses = Append(@, r.status),
               !.response = r,
               !.log = Append(@, [attempt |-> call.attempt,
                                  endpoint |-> Endpoint(call),
                                  status |-> r.status])]

After(call, outcome) ==
  IF outcome.do = "return" THEN [call EXCEPT !.pc = "returned"]
  ELSE IF outcome.do = "alternative" THEN [call EXCEPT !.pc = "alternative"]
  ELSE Catch(call, outcome.error)

\* a caller other than generateEmbeddings calls generateEmbedding
EmbedCall(text) ==
  /\ embeddingCall.pc = "idle"
  /\ embeddingBatch.pc = "idle"
  /\ embeddingCall' = Enter(text, "direct")
  /\ UNCHANGED embeddingBatch
  /\ UNCHANGED embedRest

\* the fetch of one attempt settles with r
EmbedFetch(r) ==
  /\ embeddingCall.pc = "fetch"
  /\ embeddingCall' = After(Received(embeddingCall, r), Primary(r))
  /\ UNCHANGED embeddingBatch
  /\ UNCHANGED embedRest

\* the fetch of tryAlternativeEmbeddingEndpoint settles with r
EmbedAlternative(r) ==
  /\ embeddingCall.pc = "alternative"
  /\ embeddingCall' = After(Received(embeddingCall, r), Alternative(r))
  /\ UNCHANGED embeddingBatch
  /\ UNCHANGED embedRest

\* the arrays a caller can pass to generateEmbeddings, and a value that is
\* no array
TextArrays ==
  {[array |-> TRUE, items |-> t] :
     t \in UNION {[1..n -> Texts] : n \in 0..MaxTexts}}

NotAnArray == [array |-> FALSE, items |-> <<>>]

\* Array.isArray(texts)
IsArray(texts) == texts.array

\* generateEmbeddings(texts) up to its first await
EmbedBatchCall(texts) ==
  /\ embeddingCall.pc = "idle"
  /\ embeddingBatch.pc = "idle"
  /\ IF ~IsArray(texts)
       THEN /\ embeddingBatch' = [pc |-> "thrown", texts |-> texts.items,
                                  array |-> FALSE, i |-> 0,
                                  embeddings |-> <<>>, errors |-> <<>>,
                                  failed |-> {}]
            /\ UNCHANGED embeddingCall
       ELSE /\ embeddingBatch' =
                 [pc |-> IF Len(texts.items) = 0 THEN "returned"
                                                 ELSE "await",
                  texts |-> texts.items, array |-> TRUE, i |-> 0,
                  embeddings |-> <<>>, errors |-> <<>>, failed |-> {}]
            /\ embeddingCall' = IF Len(texts.items) = 0 THEN embeddingCall
                                ELSE Enter(texts.items[1], "batch")
  /\ UNCHANGED embedRest

\* texts[i].substring(0, 100) in the catch block's log statement
SubstringThrows(text) == text.type # "string"

\* the loop body of generateEmbeddings after generateEmbedding(texts[i])
\* settled, and the start of the next turn
EmbedBatchResume ==
  /\ embeddingBatch.pc = "await"
  /\ embeddingCall.pc \in {"returned", "thrown"}
  /\ LET b == embeddingBatch
         i == b.i
         text == b.texts[i + 1]
         threw == embeddingCall.pc = "thrown"
         pushed ==
           IF threw
             THEN [b EXCEPT !.embeddings = Append(@, "null"),
                            !.errors = Append(@, [index |-> i,
                                 error |-> embeddingCall.error.message]),
                            !.failed = @ \cup {i}]
             ELSE [b EXCEPT !.embeddings = Append(@, "vector")]
     IN IF threw /\ SubstringThrows(text)
          THEN /\ embeddingBatch' = [b EXCEPT !.pc = "thrown",
                                              !.failed = @ \cup {i}]
               /\ embeddingCall' = Idle
          ELSE IF i + 1 < Len(b.texts)
            THEN /\ embeddingBatch' = [pushed EXCEPT !.i = i + 1]
                 /\ embeddingCall' = Enter(b.texts[i + 2], "batch")
          ELSE /\ embeddingBatch' = [pushed EXCEPT !.i = i + 1,
                                                   !.pc = "returned"]
               /\ embeddingCall' = Idle
  /\ UNCHANGED embedRest

EmbedNext ==
  \/ \E text \in Texts : EmbedCall(text)
  \/ \E r \in Responses : EmbedFetch(r)
  \/ \E r \in Responses : EmbedAlternative(r)
  \/ \E texts \in TextArrays \cup {NotAnArray} : EmbedBatchCall(texts)
  \/ EmbedBatchResume

EmbedSpec == EmbedInit /\ [][EmbedNext]_vars

\* a call of generateEmbedding is under way or over
Called == embeddingCall.pc # "idle"

\* C15: generateEmbedding never makes more than maxRetries attempts, and
\* against a service that answers 500 to every call it makes exactly
\* maxRetries calls and then fails with the aggregated error that carries
\* the last underlying error
C15_RetriesWithinBudget ==
  Called =>
    /\ embeddingCall.attempt <= maxRetries
    /\ ( /\ embeddingCall.pc = "thrown"
         /\ embeddingCall.statuses # <<>>
         /\ \A k \in 1..Len(embeddingCall.statuses) :
              embeddingCall.statuses[k] = 500 )
       => /\ embeddingCall.fetches = maxRetries
          /\ embeddingCall.error.aggregated
          /\ embeddingCall.error.message = embeddingCall.lastError.message

\* C16: an empty or non-text input fails before any network call, and a
\* 401 or 403 answer ends the call with that attempt, whatever its body
C16_PermanentFailuresAbort ==
  Called =>
    /\ InvalidInput(embeddingCall.text) =>
         embeddingCall.pc = "thrown" /\ embeddingCall.fetches = 0
    /\ (embeddingCall.fetches > 0
        /\ embeddingCall.response.status \in {401, 403})
       => embeddingCall.pc = "thrown"

\* C17: an answer in none of the accepted layouts is not retried: no
\* attempt follows it
C17_MalformedNotRetried ==
  (Called /\ embeddingCall.fetches > 0
   /\ embeddingCall.response.status = 200
   /\ embeddingCall.response.layout = "other")
  => embeddingCall.pc = "thrown"

\* C18: generateEmbeddings never aborts on an item's failure: for every
\* array the lists returned have a slot per item, null exactly for the
\* failed items, and one error entry with the index of each failed item
C18_BatchNeverAborts ==
  LET b == embeddingBatch
  IN /\ (b.pc = "thrown" => ~b.array)
     /\ b.pc = "returned" =>
          /\ Len(b.embeddings) = Len(b.texts)
          /\ \A k \in 1..Len(b.texts) :
               b.embeddings[k] = "null" <=> (k - 1) \in b.failed
          /\ Len(b.errors) = Cardinality(b.failed)
          /\ {b.errors[k].index : k \in 1..Len(b.errors)} = b.failed

\* ======================================================================
\* POST /hybrid (routes/chat.js): the two sub-searches settle with any rows
\* their queries can return, then the handler merges, sorts and truncates.
\* Scores are small integers.
\* ======================================================================

MaxLimit == 3         \* req.body.limit
MaxChunkId == 4       \* ids of document_chunks rows
MaxScore == 2         \* text_score and semantic_score

ChunkIds == 1..MaxChunkId

\* Math.ceil(limit / 2), the LIMIT of each sub-query
HalfLimit(limit) == (limit + 1) \div 2

\* rows a sub-query can return: each chunk at most once, ORDER BY score DESC,
\* at most HalfLimit(limit) of them
RowLists(limit, scores) ==
  {rows \in UNION {[1..n -> [id : ChunkIds, score : scores]] :
                     n \in 0..HalfLimit(limit)} :
     /\ \A k, l \in 1..Len(rows) : k # l => rows[k].id # rows[l].id
     /\ \A k \in 1..Len(rows) - 1 : rows[k].score >= rows[k + 1].score}

\* what Promise.allSettled reports for one sub-search
Settled(limit, scores) ==
  {[status |-> "fulfilled", rows |-> rows] : rows \in RowLists(limit, scores)}
  \cup {[status |-> "rejected", rows |-> <<>>]}

Max(a, b) == IF a > b THEN a ELSE b

\* seenIds after the rows of combined
SeenIds(combined) == {combined[k].id : k \in 1..Len(combined)}

\* combinedResults.findIndex(r => r.id === id)
FindIndex(combined, id) ==
  CHOOSE k \in 1..Len(combined) :
    combined[k].id = id /\ \A l \in 1..(k - 1) : combined[l].id # id

\* the else branch of the semantic forEach with the score of the row taken
\* as it is
MarkHybridOverwriting(combined, row) ==
  [combined EXCEPT ![FindIndex(combined, row.id)] =
     [@ EXCEPT !.search_type = "hybrid", !.score = row.score]]

\* the else branch of the semantic forEach: the chunk is already there
MarkHybrid(combined, row) ==
  [combined EXCEPT ![FindIndex(combined, row.id)] =
     [@ EXCEPT !.search_type = "hybrid", !.score = Max(@, row.score)]]

\* textResults.value.rows.forEach
RECURSIVE AddText(_, _)
AddText(combined, rows) ==
  IF rows = <<>> THEN combined
  ELSE LET row == Head(rows)
       IN AddText(IF row.id \in SeenIds(combined) THEN combined
                  ELSE Append(combined, [id |-> row.id, score |-> row.score,
                                         search_type |-> "text"]),
                  Tail(rows))

\* semanticResults.value.rows.forEach
RECURSIVE AddSemantic(_, _)
AddSemantic(combined, rows) ==
  IF rows = <<>> THEN combined
  ELSE LET row == Head(rows)
       IN AddSemantic(IF row.id \in SeenIds(combined)
                        THEN MarkHybrid(combined, row)
                        ELSE Append(combined,
                               [id |-> row.id, score |-> row.score,
                                search_type |-> "semantic"]),
                      Tail(rows))

\* the two results combined only when both sub-searches fulfilled, as a
\* fail-fast join would leave them
CombineBothOrNothing(textResults, semanticResults) ==
  IF textResults.status = "fulfilled" /\ semanticResults.status = "fulfilled"
    THEN AddSemantic(AddText(<<>>, textResults.rows), semanticResults.rows)
    ELSE <<>>

\* combining and deduplicating the two settled results
Combine(textResults, semanticResults) ==
  AddSemantic(AddText(<<>>, IF textResults.status = "fulfilled"
                              THEN textResults.rows ELSE <<>>),
              IF semanticResults.status = "fulfilled"
                THEN semanticResults.rows ELSE <<>>)

\* one element put in its place in a list sorted by score descending,
\* behind the elements of equal score (Array.prototype.sort is stable)
RECURSIVE Insert(_, _)
Insert(sorted, row) ==
  IF sorted = <<>> THEN <<row>>
  ELSE IF Head(sorted).score >= row.score
         THEN <<Head(sorted)>> \o Insert(Tail(sorted), row)
  ELSE <<row>> \o sorted

\* combinedResults.sort((a, b) => b.score - a.score)
RECURSIVE SortByScore(_)
SortByScore(rows) ==
  IF rows = <<>> THEN <<>>
  ELSE Insert(SortByScore(SubSeq(rows, 1, Len(rows) - 1)), rows[Len(rows)])

\* the list returned whole
SliceNothing(rows, limit) == rows

\* combinedResults.slice(0, limit)
Slice(rows, limit) == SubSeq(rows, 1, Min(limit, Len(rows)))

hybridRest == <<columns, documents, files, document_chunks, generation,
                queue, activeJobs, isMonitoring, monitor, crashes, loops,
                enqueued, processing, embeddingCall, embeddingBatch, search,
                corpus, chat, db,
                processing_jobs, splitting>>

HybridInit == PipelineIdle /\ OutsideIdle

\* a sub-search that has not settled: the semantic one first awaits
\* generateEmbedding, and both await query()
Awaiting(step) == [status |-> step, rows |-> <<>>]

HasSettled(sub) == sub.status \in {"fulfilled", "rejected"}

\* the request passed validateSearch; both sub-searches are started
HybridRequest(limit) ==
  /\ hybrid.pc = "idle"
  /\ hybrid' = [pc |-> "searching", limit |-> limit,
                textResults |-> Awaiting("query"),
                semanticResults |-> Awaiting("embedding")]
  /\ UNCHANGED hybridRest

\* ollamaService.generateEmbedding returned a vector, or it returned
\* nothing or threw (its fetch is aborted after this.timeout)
HybridEmbedding(ok) ==
  /\ hybrid.pc = "searching"
  /\ hybrid.semanticResults.status = "embedding"
  /\ hybrid' = [hybrid EXCEPT !.semanticResults =
                  IF ok THEN Awaiting("query")
                  ELSE [status |-> "rejected", rows |-> <<>>]]
  /\ UNCHANGED hybridRest

\* the database answered the text query with rows or with an error (or
\* pool.connect gave up after connectionTimeoutMillis)
HybridTextQuery(result) ==
  /\ hybrid.pc = "searching"
  /\ hybrid.textResults.status = "query"
  /\ hybrid' = [hybrid EXCEPT !.textResults = result]
  /\ UNCHANGED hybridRest

\* the same for the semantic query
HybridSemanticQuery(result) ==
  /\ hybrid.pc = "searching"
  /\ hybrid.semanticResults.status = "query"
  /\ hybrid' = [hybrid EXCEPT !.semanticResults = result]
  /\ UNCHANGED hybridRest

\* Promise.allSettled resumes the handler once both sub-searches settled;
\* it combines, sorts and truncates before its next await (the INSERT into
\* search_queries)
HybridSettle ==
  /\ hybrid.pc = "searching"
  /\ HasSettled(hybrid.textResults)
  /\ HasSettled(hybrid.semanticResults)
  /\ LET combinedResults == Combine(hybrid.textResults,
                                    hybrid.semanticResults)
         sorted == SortByScore(combinedResults)
     IN hybrid' = [pc |-> "logging", limit |-> hybrid.limit,
                   textResults |-> hybrid.textResults,
                   semanticResults |-> hybrid.semanticResults,
                   merged |-> combinedResults,
                   combinedResults |-> sorted,
                   finalResults |-> Slice(sorted, hybrid.limit)]
  /\ UNCHANGED hybridRest

\* the analytics INSERT succeeded or failed (only logged); res.json
HybridRespond ==
  /\ hybrid.pc = "logging"
  /\ hybrid' = [pc |-> "responded", limit |-> hybrid.limit,
                textResults |-> hybrid.textResults,
                semanticResults |-> hybrid.semanticResults,
                merged |-> hybrid.merged,
                combinedResults |-> hybrid.combinedResults,
                finalResults |-> hybrid.finalResults,
                searchTypes |->
                  [text |-> hybrid.textResults.status = "fulfilled",
                   semantic |-> hybrid.semanticResults.status = "fulfilled"]]
  /\ UNCHANGED hybridRest

HybridNext ==
  \/ \E limit \in 1..MaxLimit : HybridRequest(limit)
  \/ \E ok \in BOOLEAN : HybridEmbedding(ok)
  \/ /\ hybrid.pc = "searching"
     /\ \E result \in Settled(hybrid.limit, 0..MaxScore) :
          HybridTextQuery(result)
  \/ /\ hybrid.pc = "searching"
     /\ \E result \in Settled(hybrid.limit, 1..MaxScore) :
          HybridSemanticQuery(result)
  \/ HybridSettle
  \/ HybridRespond

HybridSpec == HybridInit /\ [][HybridNext]_vars

\* the handler has combined the settled sub-results
Merged == hybrid.pc \in {"logging", "responded"}

\* the rows a settled sub-search contributed
RowsOf(settled) == IF settled.status = "fulfilled" THEN settled.rows ELSE <<>>

Ids(rows) == {rows[k].id : k \in 1..Len(rows)}

ScoreOf(rows, id) == rows[CHOOSE k \in 1..Len(rows) : rows[k].id = id].score

\* the entries of the merged set that carry chunk id
EntriesOf(id) == {k \in 1..Len(hybrid.merged) : hybrid.merged[k].id = id}

\* C19: in the hybrid merge a chunk id found by both sub-searches is
\* labeled hybrid with the larger of its two scores, and a chunk id found
\* by exactly one keeps that sub-search's label and score
C19_HybridMerge ==
  Merged =>
    LET text == RowsOf(hybrid.textResults)
        semantic == RowsOf(hybrid.semanticResults)
        Entry(id) == hybrid.merged[CHOOSE k \in EntriesOf(id) : TRUE]
    IN \A id \in ChunkIds :
         /\ Cardinality(EntriesOf(id)) =
              IF id \in Ids(text) \cup Ids(semantic) THEN 1 ELSE 0
         /\ id \in Ids(text) \cap Ids(semantic) =>
              /\ Entry(id).search_type = "hybrid"
              /\ Entry(id).score =
                   Max(ScoreOf(text, id), ScoreOf(semantic, id))
         /\ id \in Ids(text) \ Ids(semantic) =>
              /\ Entry(id).search_type = "text"
              /\ Entry(id).score = ScoreOf(text, id)
         /\ id \in Ids(semantic) \ Ids(text) =>
              /\ Entry(id).search_type = "semantic"
              /\ Entry(id).score = ScoreOf(semantic, id)

\* a response whose merged set has a text-only chunk, a semantic-only chunk
\* and a chunk found by both, scored higher by the lexical search
C19_Witness ==
  /\ hybrid.pc = "responded"
  /\ \E id \in Ids(RowsOf(hybrid.textResults))
               \cap Ids(RowsOf(hybrid.semanticResults)) :
       ScoreOf(RowsOf(hybrid.textResults), id)
         > ScoreOf(RowsOf(hybrid.semanticResults), id)
  /\ \E k, l \in 1..Len(hybrid.merged) :
       /\ hybrid.merged[k].search_type = "text"
       /\ hybrid.merged[l].search_type = "semantic"

\* C20: the hybrid result list is the merged set sorted by score
\* descending and cut to limit: at most limit entries, none scored higher
\* than an entry before it, and nothing left out that outscores an entry
\* kept
C20_SortedAndTruncated ==
  Merged =>
    LET final == hybrid.finalResults
        kept == {final[k] : k \in 1..Len(final)}
        all == {hybrid.merged[k] : k \in 1..Len(hybrid.merged)}
    IN /\ Len(final) <= hybrid.limit
       /\ Len(final) = Min(hybrid.limit, Len(hybrid.merged))
       /\ Cardinality(kept) = Len(final)
       /\ kept \subseteq all
       /\ \A k \in 1..Len(final) - 1 : final[k].score >= final[k + 1].score
       /\ \A r \in all \ kept : \A f \in kept : f.score >= r.score

\* a response cut to limit, with entries of different scores kept
C20_Witness ==
  /\ hybrid.pc = "responded"
  /\ Len(hybrid.merged) > hybrid.limit
  /\ Len(hybrid.finalResults) = hybrid.limit
  /\ \E k, l \in 1..Len(hybrid.finalResults) :
       hybrid.finalResults[k].score > hybrid.finalResults[l].score

\* the rows of a sub-result as the text branch of the merge labels them
LabeledText(rows) ==
  [k \in 1..Len(rows) |->
     [id |-> rows[k].id, score |-> rows[k].score, search_type |-> "text"]]

\* C21: when the semantic sub-search failed, the hybrid search raises no
\* error and answers with exactly the rows of the lexical sub-search, in
\* their order, each labeled text with its lexical score
C21_SemanticFailureGivesLexical ==
  (Merged /\ hybrid.semanticResults.status = "rejected") =>
    /\ hybrid.finalResults = LabeledText(RowsOf(hybrid.textResults))
    /\ hybrid.pc = "responded" =>
         hybrid.searchTypes =
           [text |-> hybrid.textResults.status = "fulfilled",
            semantic |-> FALSE]

\* a response to a request whose semantic sub-search failed and whose
\* lexical sub-search found two chunks
C21_Witness ==
  /\ hybrid.pc = "responded"
  /\ hybrid.semanticResults.status = "rejected"
  /\ hybrid.textResults.status = "fulfilled"
  /\ Len(hybrid.textResults.rows) = 2
  /\ Len(hybrid.finalResults) = 2

\* the steps of the hybrid handler that the program itself drives: the
\* embedding call ends by an answer or by its abort timer, the handler
\* resumes when both promises settled and answers when the logging INSERT
\* settled; query() sets no statement or query timeout
HybridFairness ==
  /\ WF_vars(\E ok \in BOOLEAN : HybridEmbedding(ok))
  /\ WF_vars(HybridSettle)
  /\ WF_vars(HybridRespond)

HybridFairSpec == HybridSpec /\ HybridFairness

\* the handler merges only settled sub-results, and the rows of a
\* fulfilled sub-search are merged whatever became of the other one
SettleAllJoin ==
  Merged =>
    /\ HasSettled(hybrid.textResults)
    /\ HasSettled(hybrid.semanticResults)
    /\ Ids(RowsOf(hybrid.textResults)) \cup Ids(RowsOf(hybrid.semanticResults))
         = Ids(hybrid.merged)

\* C22: the hybrid search is a settle-all join of its two sub-searches: it
\* resumes only after both settled, a failure of one never keeps the rows
\* of the other from being used, and it never waits indefinitely on either
C22_SettleAllJoinNeverWaits ==
  /\ []SettleAllJoin
  /\ (hybrid.pc = "searching") ~> Merged

\* ======================================================================
\* POST /text and POST /semantic (routes/chat.js), and POST /hybrid with
\* its two sub-queries, run over one content of document_chunks JOIN
\* documents. The relevance of a chunk to the query is a small integer:
\* rank 0 stands for a chunk the tsquery does not match. Requests carry no
\* documents filter, and one request is followed at a time.
\* ======================================================================

threshold == 0        \* req.body.threshold, on the scale of the similarities

\* the rows of document_chunks by id: ids are uuids, in no relation to the
\* order of the chunks in their document
ChunkRows ==
  <<[document_id |-> 1, chunk_index |-> 1],
    [document_id |-> 1, chunk_index |-> 0],
    [document_id |-> 2, chunk_index |-> 0]>>

SearchIds == DOMAIN ChunkRows

SearchDocs == {ChunkRows[c].document_id : c \in SearchIds}

\* the contents the queries can meet: the status of each document, and per
\* chunk whether its embedding is NULL, its ts_rank against the query and
\* the cosine of its embedding with the query's
Corpora ==
  {t \in [status : [SearchDocs -> {"completed", "processing"}],
          embedding : [SearchIds -> {"vector", "null"}],
          rank : [SearchIds -> 0..MaxScore],
          similarity : [SearchIds -> 0..MaxScore]] :
     \A c \in SearchIds : t.embedding[c] = "null" => t.similarity[c] = 0}

chunk_index(c) == ChunkRows[c].chunk_index

\* ts_rank(to_tsvector('english', dc.content), plainto_tsquery(...))
ts_rank(c) == corpus.rank[c]

\* cosine_similarity(dc.embedding, $1::jsonb): 0 when an argument is NULL
cosine_similarity(c) ==
  IF corpus.embedding[c] = "null" THEN 0 ELSE corpus.similarity[c]

\* d.status = 'completed' on the joined documents row
StatusCompleted(c) == corpus.status[ChunkRows[c].document_id] = "completed"

\* the WHERE clause of the text queries with the status test left out
TextWhereAnyStatus(c) == ts_rank(c) > 0

\* the WHERE clause of the text queries
TextWhere(c) == ts_rank(c) > 0 /\ StatusCompleted(c)

\* the WHERE clause of the semantic queries
SemanticWhere(c) ==
  /\ corpus.embedding[c] # "null"
  /\ StatusCompleted(c)
  /\ cosine_similarity(c) > threshold

\* ORDER BY rank DESC, dc.chunk_index: the pairs <<a, b>> of chunks of
\* which a is put before b
ByRankThenChunkIndex ==
  {p \in SearchIds \X SearchIds :
     \/ ts_rank(p[1]) > ts_rank(p[2])
     \/ /\ ts_rank(p[1]) = ts_rank(p[2])
        /\ chunk_index(p[1]) < chunk_index(p[2])}

\* ORDER BY text_score DESC
ByTextScore ==
  {p \in SearchIds \X SearchIds : ts_rank(p[1]) > ts_rank(p[2])}

\* ORDER BY similarity DESC, ORDER BY semantic_score DESC
BySimilarity ==
  {p \in SearchIds \X SearchIds :
     cosine_similarity(p[1]) > cosine_similarity(p[2])}

\* the selected score column of every chunk
TextScores == [c \in SearchIds |-> ts_rank(c)]

SemanticScores == [c \in SearchIds |-> cosine_similarity(c)]

\* the row lists a SELECT can return: the chunks of S in an order in which
\* none stands behind a chunk that ORDER BY puts after it (rows that ORDER
\* BY does not tell apart come in any order), the first LIMIT of them
Select(S, before, scores, limit) ==
  {[k \in 1..Min(limit, Cardinality(S)) |->
      [id |-> s[k], score |-> scores[s[k]]]] :
     s \in {s \in [1..Cardinality(S) -> S] :
              /\ \A i, j \in 1..Cardinality(S) : i # j => s[i] # s[j]
              /\ \A i, j \in 1..Cardinality(S) :
                   i < j => <<s[j], s[i]>> \notin before}}

\* the query of POST /text
TextRouteQuery(limit) ==
  Select({c \in SearchIds : TextWhere(c)}, ByRankThenChunkIndex, TextScores,
         limit)

\* the query of POST /semantic
SemanticRouteQuery(limit) ==
  Select({c \in SearchIds : SemanticWhere(c)}, BySimilarity,
         SemanticScores, limit)

\* the text sub-query of POST /hybrid
TextSubQuery(limit) ==
  Select({c \in SearchIds : TextWhere(c)}, ByTextScore, TextScores,
         HalfLimit(limit))

\* the semantic sub-query of POST /hybrid
SemanticSubQuery(limit) ==
  Select({c \in SearchIds : SemanticWhere(c)}, BySimilarity,
         SemanticScores, HalfLimit(limit))

\* what awaiting query() can give: rows, or an error whose message names
\* cosine_similarity (or 'function does not exist'), or any other error
QueryErrors == {"cosine_similarity", "other"}

QueryOutcomes(rowLists) ==
  {[status |-> "fulfilled", rows |-> rows, error |-> "none"] :
     rows \in rowLists}
  \cup {[status |-> "rejected", rows |-> <<>>, error |-> e] :
          e \in QueryErrors}

\* what a sub-search of POST /hybrid settles with over the corpus
SubSearchOutcomes(rowLists) ==
  {[status |-> "fulfilled", rows |-> rows] : rows \in rowLists}
  \cup {[status |-> "rejected", rows |-> <<>>]}

searchRest == <<columns, documents, files, document_chunks, generation,
                queue, activeJobs, isMonitoring, monitor, crashes, loops,
                enqueued, processing, embeddingCall, embeddingBatch, hybrid,
                corpus, chat, db,
                processing_jobs, splitting>>

SearchInit ==
  /\ PipelineIdle
  /\ loops = <<>>
  /\ enqueued = 0
  /\ processing = Idle
  /\ embeddingCall = Idle
  /\ embeddingBatch = Idle
  /\ hybrid = Idle
  /\ search = Idle
  /\ chat = Idle
  /\ db = <<>>
  /\ processing_jobs = <<>>
  /\ splitting = Idle
  /\ corpus \in Corpora

\* where a request of the two routes stands: http is the status of the
\* response sent (0: none yet), body what it carries
SearchFrame(pc, route, limit, http, body, results) ==
  [pc |-> pc, route |-> route, limit |-> limit, http |-> http,
   body |-> body, results |-> results]

\* the request passed validateSearch
SearchRequest(route, limit) ==
  /\ search.pc = "idle"
  /\ search' = SearchFrame(IF route = "semantic" THEN "embedding" ELSE "query",
                           route, limit, 0, "none", <<>>)
  /\ UNCHANGED searchRest

\* POST /semantic: generateEmbedding returned a vector, returned nothing or
\* threw; without a vector the route answers
\* res.status(500).json({error: 'Semantic search unavailable', ...})
SearchEmbedding(outcome) ==
  /\ search.pc = "embedding"
  /\ search' = IF outcome = "vector"
                 THEN [search EXCEPT !.pc = "query"]
                 ELSE SearchFrame("responded", search.route, search.limit,
                                  500, "error", <<>>)
  /\ UNCHANGED searchRest

\* await query(queryText, params). An error goes to next(error), and the
\* errorHandler answers it with 500; in POST /semantic an error naming
\* cosine_similarity enters the fallback branch of the catch, which reads
\* searchQuery, a const of the try block: the ReferenceError rejects the
\* handler's promise and no response is written by the route
SearchQuery(outcome) ==
  /\ search.pc = "query"
  /\ search' =
       IF outcome.status = "fulfilled"
         THEN [search EXCEPT !.pc = "logging", !.results = outcome.rows]
       ELSE IF search.route = "semantic" /\ outcome.error = "cosine_similarity"
         THEN SearchFrame("thrown", search.route, search.limit, 0, "none",
                          <<>>)
       ELSE SearchFrame("responded", search.route, search.limit, 500,
                        "error", <<>>)
  /\ UNCHANGED searchRest

\* the analytics INSERT succeeded or failed (only logged); res.json with
\* results: result.rows
SearchRespond ==
  /\ search.pc = "logging"
  /\ search' = [search EXCEPT !.pc = "responded", !.http = 200,
                              !.body = "results"]
  /\ UNCHANGED searchRest

SearchRoutes == {"text", "semantic"}

SearchNext ==
  \/ /\ hybrid.pc = "idle"
     /\ \E route \in SearchRoutes, limit \in 1..MaxLimit :
          SearchRequest(route, limit)
  \/ \E outcome \in {"vector", "nothing", "throws"} : SearchEmbedding(outcome)
  \/ /\ search.pc = "query"
     /\ \E outcome \in QueryOutcomes(IF search.route = "text"
                                       THEN TextRouteQuery(search.limit)
                                       ELSE SemanticRouteQuery(search.limit)) :
          SearchQuery(outcome)
  \/ SearchRespond
  \/ /\ search.pc = "idle"
     /\ \E limit \in 1..MaxLimit : HybridRequest(limit)
  \/ \E ok \in BOOLEAN : HybridEmbedding(ok)
  \/ /\ hybrid.pc = "searching"
     /\ \E result \in SubSearchOutcomes(TextSubQuery(hybrid.limit)) :
          HybridTextQuery(result)
  \/ /\ hybrid.pc = "searching"
     /\ \E result \in SubSearchOutcomes(SemanticSubQuery(hybrid.limit)) :
          HybridSemanticQuery(result)
  \/ HybridSettle
  \/ HybridRespond

SearchSpec == SearchInit /\ [][SearchNext]_vars

\* rows of equal score stand in ascending order of chunk_index
TiesByChunkIndex(rows) ==
  \A k, l \in 1..Len(rows) :
    (k < l /\ rows[k].score = rows[l].score) =>
      chunk_index(rows[k].id) <= chunk_index(rows[l].id)

\* the part of C23 about POST /text
TextTiesByChunkIndex ==
  (search.pc = "responded" /\ search.route = "text") =>
    TiesByChunkIndex(search.results)

\* C23: in the lexical, the semantic and the hybrid search, results of
\* equal score are ordered by chunk index ascending
C23_TiesByChunkIndex ==
  /\ search.pc = "responded" => TiesByChunkIndex(search.results)
  /\ hybrid.pc = "responded" => TiesByChunkIndex(hybrid.finalResults)

\* the chunk ids of a list of result rows
Returned(rows) == {rows[k].id : k \in 1..Len(rows)}

\* C24: no search returns a chunk of a document whose status is not
\* completed when the query runs; semantic results (and the semantic and
\* hybrid entries of a hybrid result) never hold a chunk whose embedding is
\* null; a chunk with a null embedding of a completed document is still
\* returned by the lexical search when it matches and the limit has room
C24_OnlyCompletedOnlyEmbedded ==
  /\ search.pc = "responded" =>
       /\ \A c \in Returned(search.results) : StatusCompleted(c)
       /\ search.route = "semantic" =>
            \A c \in Returned(search.results) : corpus.embedding[c] # "null"
       /\ (search.route = "text" /\ search.http = 200) =>
            LET matching == {c \in SearchIds :
                               ts_rank(c) > 0 /\ StatusCompleted(c)}
            IN Cardinality(matching) <= search.limit =>
                 matching = Returned(search.results)
  /\ Merged =>
       \A k \in 1..Len(hybrid.finalResults) :
         LET row == hybrid.finalResults[k]
         IN /\ StatusCompleted(row.id)
            /\ row.search_type \in {"semantic", "hybrid"} =>
                 corpus.embedding[row.id] # "null"

\* a lexical response that holds a chunk with a null embedding of the
\* completed document and leaves out a matching chunk of the document
\* that is being processed
C24_Witness ==
  /\ search.pc = "responded"
  /\ search.route = "text"
  /\ \E c \in Returned(search.results) : corpus.embedding[c] = "null"
  /\ \E c \in SearchIds \ Returned(search.results) :
       /\ ts_rank(c) > 0
       /\ ~StatusCompleted(c)
  /\ Len(search.results) < search.limit

\* ======================================================================
\* The two chat operations of routes/chat.js: POST / (context from
\* getDocumentContext) and POST /sessions/:sessionId/messages (context
\* from its own similarity query). A context is "" when empty, "chunks"
\* when it is the text made of the rows found, or the placeholder string
\* of POST /. found records what the context search came to.
\* ======================================================================

MaxDocumentIds == 2   \* req.body.documentIds.length

ContextLimit == 5     \* LIMIT 5, nResults: 5

Placeholder == "[Unable to retrieve context for n document(s)]"

\* the rows the context query can return: chunk ids, each at most once
ContextRows ==
  {rows \in UNION {[1..n -> ChunkIds] : n \in 0..Min(ContextLimit, MaxChunkId)} :
     \A k, l \in 1..Len(rows) : k # l => rows[k] # rows[l]}

chatRest == <<columns, documents, files, document_chunks, generation, queue,
              activeJobs, isMonitoring, monitor, crashes, loops, enqueued,
              processing, embeddingCall, embeddingBatch, hybrid, search,
              corpus, db, processing_jobs, splitting>>

ChatInit == PipelineIdle /\ OutsideIdle

ChatFrame(pc, route, documentIds, found, context, relatedChunks, http) ==
  [pc |-> pc, route |-> route, documentIds |-> documentIds, found |-> found,
   context |-> context, relatedChunks |-> relatedChunks, http |-> http]

\* the response is written: the request is over
Responded(http) == [chat EXCEPT !.pc = "responded", !.http = http]

\* POST /: the message is checked, 400 when it is not a non-empty string
ChatRequest(valid, documentIds) ==
  /\ chat.pc = "idle"
  /\ chat' = IF valid
               THEN ChatFrame("isAvailable", "/", documentIds, "not searched",
                              "", <<>>, 0)
               ELSE ChatFrame("responded", "/", documentIds, "not searched",
                              "", <<>>, 400)
  /\ UNCHANGED chatRest

\* POST /: ollamaService.isAvailable() answers false or throws (503), or
\* answers true; then the context is fetched when documentIds were given
ChatIsAvailable(outcome) ==
  /\ chat.pc = "isAvailable"
  /\ chat' = IF outcome # "true" THEN Responded(503)
             ELSE IF chat.documentIds > 0
               THEN [chat EXCEPT !.pc = "getDocumentContext"]
             ELSE [chat EXCEPT !.pc = "generate"]
  /\ UNCHANGED chatRest

\* POST /: getDocumentContext returned the joined documents of the rows
\* found, or it threw (the collection, the embedding or the query failed)
\* and the catch sets the placeholder
ChatGetDocumentContext(threw, rows) ==
  /\ chat.pc = "getDocumentContext"
  /\ chat' = IF threw
               THEN [chat EXCEPT !.pc = "generate", !.found = "unavailable",
                                 !.context = Placeholder]
             ELSE [chat EXCEPT !.pc = "generate",
                               !.found = IF rows = <<>> THEN "nothing"
                                         ELSE "chunks",
                               !.context = IF rows = <<>> THEN ""
                                           ELSE "chunks"]
  /\ UNCHANGED chatRest

\* POST /sessions/:sessionId/messages: the request passed validateChat and
\* the user message is inserted (an error goes to next(error))
MessageRequest(use_documents, saved) ==
  /\ chat.pc = "idle"
  /\ chat' = IF ~saved
               THEN ChatFrame("responded", "messages", 0, "not searched", "",
                              <<>>, 500)
             ELSE ChatFrame(IF use_documents THEN "generateEmbedding"
                            ELSE "generate",
                            "messages", 0, "not searched", "", <<>>, 0)
  /\ UNCHANGED chatRest

\* messages: generateEmbedding(message) returned a vector, returned
\* nothing, or threw into the catch that only logs
MessageEmbedding(outcome) ==
  /\ chat.pc = "generateEmbedding"
  /\ chat' = IF outcome = "vector"
               THEN [chat EXCEPT !.pc = "contextQuery"]
               ELSE [chat EXCEPT !.pc = "generate", !.found = "unavailable"]
  /\ UNCHANGED chatRest

\* messages: the context query returned rows or threw into the same catch
MessageContextQuery(threw, rows) ==
  /\ chat.pc = "contextQuery"
  /\ chat' = IF threw
               THEN [chat EXCEPT !.pc = "generate", !.found = "unavailable"]
             ELSE IF Len(rows) > 0
               THEN [chat EXCEPT !.pc = "generate", !.found = "chunks",
                                 !.context = "chunks", !.relatedChunks = rows]
             ELSE [chat EXCEPT !.pc = "generate", !.found = "nothing"]
  /\ UNCHANGED chatRest

\* generateWithContext(message, documentContext, chatHistory) of POST /,
\* generateResponse(message, context) and the two writes of messages; an
\* error is answered by the catch of POST / or by next(error)
ChatGenerate(ok) ==
  /\ chat.pc = "generate"
  /\ chat' = Responded(IF ok THEN 200 ELSE 500)
  /\ UNCHANGED chatRest

ChatNext ==
  \/ \E valid \in BOOLEAN, documentIds \in 0..MaxDocumentIds :
       ChatRequest(valid, documentIds)
  \/ \E outcome \in {"true", "false", "throws"} : ChatIsAvailable(outcome)
  \/ /\ chat.pc = "getDocumentContext"
     /\ \E threw \in BOOLEAN, rows \in ContextRows :
          ChatGetDocumentContext(threw, rows)
  \/ \E use_documents \in BOOLEAN, saved \in BOOLEAN :
       MessageRequest(use_documents, saved)
  \/ \E outcome \in {"vector", "nothing", "throws"} : MessageEmbedding(outcome)
  \/ /\ chat.pc = "contextQuery"
     /\ \E threw \in BOOLEAN, rows \in ContextRows :
          MessageContextQuery(threw, rows)
  \/ \E ok \in BOOLEAN : ChatGenerate(ok)

ChatSpec == ChatInit /\ [][ChatNext]_vars

\* the part of C25 about POST /sessions/:sessionId/messages
MessagesEmptyContext ==
  (chat.pc = "generate" /\ chat.route = "messages"
     /\ chat.found \in {"nothing", "unavailable"}) =>
    chat.context = "" /\ chat.relatedChunks = <<>>

\* C25: when no chunk clears the threshold or the semantic search is
\* unavailable, the chat operation goes on to generation with the empty
\* context string and an empty list of used chunks
C25_NoGroundingIsEmptyContext ==
  (chat.pc = "generate" /\ chat.found \in {"nothing", "unavailable"}) =>
    chat.context = "" /\ chat.relatedChunks = <<>>

\* ======================================================================
\* config/database.js: testConnection, query and initDatabase called by
\* concurrent callers on the one pool. db.clients counts the clients
\* checked out of the pool.
\* ======================================================================

max == 10             \* new Pool({max: 10})

DbOperations == {"testConnection", "query", "initDatabase"}

DbIdle == [pc |-> "idle", op |-> "none"]

dbRest == <<columns, documents, files, document_chunks, generation, queue,
            activeJobs, isMonitoring, monitor, crashes, loops, enqueued,
            processing, embeddingCall, embeddingBatch, hybrid, search,
            corpus, chat, processing_jobs, splitting>>

\* let isConnected = false; an empty pool; nobody calling
DbInit ==
  /\ PipelineIdle
  /\ loops = <<>>
  /\ enqueued = 0
  /\ processing = Idle
  /\ embeddingCall = Idle
  /\ embeddingBatch = Idle
  /\ hybrid = Idle
  /\ search = Idle
  /\ corpus = <<>>
  /\ chat = Idle
  /\ processing_jobs = <<>>
  /\ splitting = Idle
  /\ db = [isConnected |-> FALSE, clients |-> 0,
           calls |-> [c \in Callers |-> DbIdle]]

DbSetCall(c, call) == [db.calls EXCEPT ![c] = call]

\* a caller enters one of the three functions. query throws and
\* initDatabase returns false at once when isConnected is false
DbCall(c, op) ==
  /\ db.calls[c].pc \in {"idle", "returned", "thrown"}
  /\ db' = [db EXCEPT !.calls =
              DbSetCall(c, IF op = "testConnection" \/ db.isConnected
                             THEN [pc |-> "connect", op |-> op]
                           ELSE IF op = "query"
                             THEN [pc |-> "thrown", op |-> op]
                           ELSE [pc |-> "returned", op |-> op])]
  /\ UNCHANGED dbRest

\* await pool.connect(): a client is checked out, or the promise rejects
\* (server unreachable, or no client free within connectionTimeoutMillis).
\* Only testConnection awaits it inside its try
DbConnect(c, ok) ==
  /\ db.calls[c].pc = "connect"
  /\ ok => db.clients < max
  /\ db' = IF ok
             THEN [db EXCEPT !.clients = @ + 1,
                             !.calls = DbSetCall(c, [pc |-> "query",
                                                     op |-> db.calls[c].op])]
           ELSE IF db.calls[c].op = "testConnection"
             THEN [db EXCEPT !.isConnected = FALSE,
                             !.calls = DbSetCall(c, [pc |-> "returned",
                                                     op |-> db.calls[c].op])]
           ELSE [db EXCEPT !.calls = DbSetCall(c, [pc |-> "thrown",
                                                   op |-> db.calls[c].op])]
  /\ UNCHANGED dbRest

\* the statements on the client succeed or one of them throws.
\* testConnection releases the client after its query and sets isConnected,
\* its catch only sets isConnected = false; query and initDatabase release
\* in finally
DbQuery(c, ok) ==
  /\ db.calls[c].pc = "query"
  /\ db' = IF db.calls[c].op = "testConnection"
             THEN [db EXCEPT !.isConnected = ok,
                             !.clients = IF ok THEN @ - 1 ELSE @,
                             !.calls = DbSetCall(c, [pc |-> "returned",
                                                     op |-> db.calls[c].op])]
           ELSE [db EXCEPT !.clients = @ - 1,
                           !.calls = DbSetCall(c, [pc |-> IF ok THEN "returned"
                                                          ELSE "thrown",
                                                   op |-> db.calls[c].op])]
  /\ UNCHANGED dbRest

DbNext ==
  \/ \E c \in Callers, op \in DbOperations : DbCall(c, op)
  \/ \E c \in Callers, ok \in BOOLEAN : DbConnect(c, ok)
  \/ \E c \in Callers, ok \in BOOLEAN : DbQuery(c, ok)

DbSpec == DbInit /\ [][DbNext]_vars

\* the calls that hold a client
Holding == {c \in Callers : db.calls[c].pc = "query"}

\* the part of C26 about query and initDatabase: neither ends holding the
\* client it acquired
ScopedOperationsRelease ==
  [][\A c \in Callers :
       (db.calls[c].pc = "query" /\ db.calls[c].op # "testConnection"
          /\ db'.calls[c].pc # "query") =>
         db'.clients = db.clients - 1]_vars

\* C26: every connection taken from the pool is released on every exit
\* path of query, testConnection and initDatabase: the clients checked out
\* are those of the calls still running
C26_ConnectionsReleased == db.clients = Cardinality(Holding)

\* C27 for processDocument of services/documentProcessor.js: a run given
\* what the run before it was given ends with the rows, the chunk_count
\* and the status that run ended with
ReplaceIsIdempotent ==
  LET p == processing.previous
  IN (/\ processing.pc \in {"fulfilled", "rejected"}
      /\ p.raised # "never ran"
      /\ files[TheDoc] = p.chunks
      /\ processing.outcomes = p.outcomes
      /\ processing.raised = p.raised
      /\ processing.i = p.i) =>
       /\ document_chunks[TheDoc] = p.document_chunks
       /\ documents[TheDoc].chunk_count = p.chunk_count
       /\ documents[TheDoc].status = p.status

\* a second completed run over the same two chunks, the embedding of the
\* second failing both times
ReplaceIsIdempotentWitness ==
  /\ processing.pc = "fulfilled"
  /\ processing.previous.raised = "nothing"
  /\ processing.raised = "nothing"
  /\ processing.outcomes = <<TRUE, FALSE>>
  /\ processing.previous.outcomes = <<TRUE, FALSE>>

\* ======================================================================
\* One document through processDocument of the DocumentProcessor class
\* that services/jobProcessor.js carries (INSERT per chunk, then the
\* embeddings of the rows whose embedding IS NULL), run after run.
\* ======================================================================

legacyRest == <<columns, queue, activeJobs, isMonitoring, monitor, crashes,
                loops, enqueued, embeddingCall, embeddingBatch, hybrid,
                search, corpus, chat, db, splitting>>

LegacyInit == ProcessInit

\* the rows of the document in document_chunks with the given indices
IndicesStored == {row.chunk_index : row \in document_chunks[TheDoc]}

\* what the run that has ended was given and what it left
LegacyEnded ==
  IF processing.pc = "idle" THEN [raised |-> "never ran"]
  ELSE [chunks |-> files[TheDoc], outcomes |-> processing.outcomes,
        raised |-> processing.raised,
        status |-> documents[TheDoc].status,
        document_chunks |-> document_chunks[TheDoc]]

\* processDocument is called: UPDATE documents SET status = 'processing',
\* then createProcessingJob inserts a row and returns its id
LegacyCall ==
  /\ processing.pc \in {"idle", "fulfilled", "rejected"}
  /\ generation[TheDoc] < MaxRuns
  /\ generation' = [generation EXCEPT ![TheDoc] = @ + 1]
  /\ documents' = SetStatus(TheDoc, "processing")
  /\ processing_jobs' = Append(processing_jobs,
                               [document_id |-> TheDoc,
                                status |-> "processing", progress |-> 0])
  /\ processing' = [pc |-> "extract", jobId |-> Len(processing_jobs) + 1,
                    outcomes |-> {}, raised |-> "nothing",
                    previous |-> LegacyEnded]
  /\ UNCHANGED <<files, document_chunks>>
  /\ UNCHANGED legacyRest

\* updateJobProgress(jobId, progress)
JobProgress(jobId, progress) ==
  [processing_jobs EXCEPT ![jobId].progress = progress]

\* extractTextContent raises or yields no content (both go to the catch),
\* or splitIntoChunks returns n chunks; progress 25 and 50
LegacyExtract(n, ok) ==
  /\ processing.pc = "extract"
  /\ files' = [files EXCEPT ![TheDoc] = IF ok THEN n ELSE 0]
  /\ IF ok
       THEN /\ processing' = [processing EXCEPT !.pc = "store"]
            /\ processing_jobs' = JobProgress(processing.jobId, 50)
       ELSE /\ processing' = [processing EXCEPT !.pc = "catch",
                                                !.raised = "extraction"]
            /\ UNCHANGED processing_jobs
  /\ UNCHANGED <<documents, document_chunks, generation>>
  /\ UNCHANGED legacyRest

\* processAndStoreChunks: one INSERT per chunk under Promise.all. The
\* INSERT of an index the document already has violates
\* UNIQUE(document_id, chunk_index) and rejects the whole; the others are
\* stored with no embedding. Progress 75 when none failed
LegacyStore ==
  /\ processing.pc = "store"
  /\ LET indices == 0..(files[TheDoc] - 1)
         violating == indices \cap IndicesStored
     IN /\ document_chunks' = [document_chunks EXCEPT ![TheDoc] = @ \cup
             {[chunk_index |-> k, embedding |-> "null"] :
                k \in indices \ violating}]
        /\ IF violating = {}
             THEN /\ processing' = [processing EXCEPT !.pc = "embeddings"]
                  /\ processing_jobs' = JobProgress(processing.jobId, 75)
             ELSE /\ processing' = [processing EXCEPT !.pc = "catch",
                                                      !.raised = "storage"]
                  /\ UNCHANGED processing_jobs
  /\ UNCHANGED <<documents, files, generation>>
  /\ UNCHANGED legacyRest

\* generateEmbeddings(documentId): every row whose embedding IS NULL gets
\* one generateEmbedding call; embedded are the indices for which it
\* returned a vector, the others are only logged. Progress 100
LegacyEmbeddings(embedded) ==
  /\ processing.pc = "embeddings"
  /\ document_chunks' = [document_chunks EXCEPT ![TheDoc] =
       {IF row.chunk_index \in embedded /\ row.embedding = "null"
          THEN [row EXCEPT !.embedding = "vector"] ELSE row : row \in @}]
  /\ processing' = [processing EXCEPT !.pc = "complete",
                                      !.outcomes = embedded]
  /\ processing_jobs' = JobProgress(processing.jobId, 100)
  /\ UNCHANGED <<documents, files, generation>>
  /\ UNCHANGED legacyRest

\* UPDATE documents SET status = 'completed'; completeProcessingJob(jobId)
LegacyComplete ==
  /\ processing.pc = "complete"
  /\ documents' = SetStatus(TheDoc, "completed")
  /\ processing_jobs' = [processing_jobs EXCEPT ![processing.jobId] =
                           [@ EXCEPT !.status = "completed",
                                     !.progress = 100]]
  /\ processing' = [processing EXCEPT !.pc = "fulfilled"]
  /\ UNCHANGED <<files, document_chunks, generation>>
  /\ UNCHANGED legacyRest

\* the catch block: UPDATE documents SET status = 'failed';
\* failProcessingJob fails every job of the document that is processing
LegacyCatch ==
  /\ processing.pc = "catch"
  /\ documents' = SetStatus(TheDoc, "failed")
  /\ processing_jobs' =
       [j \in DOMAIN processing_jobs |->
          IF /\ processing_jobs[j].document_id = TheDoc
             /\ processing_jobs[j].status = "processing"
            THEN [processing_jobs[j] EXCEPT !.status = "failed"]
            ELSE processing_jobs[j]]
  /\ processing' = [processing EXCEPT !.pc = "rejected"]
  /\ UNCHANGED <<files, document_chunks, generation>>
  /\ UNCHANGED legacyRest

LegacyNext ==
  \/ LegacyCall
  \/ \E n \in 0..MaxChunks, ok \in BOOLEAN : LegacyExtract(n, ok)
  \/ LegacyStore
  \/ /\ processing.pc = "embeddings"
     /\ \E embedded \in SUBSET (0..(files[TheDoc] - 1)) :
          LegacyEmbeddings(embedded)
  \/ LegacyComplete
  \/ LegacyCatch

LegacySpec == LegacyInit /\ [][LegacyNext]_vars

\* C27: processDocument run a second time for the same document, with the
\* same text and the same embedding outcomes, ends with the chunk rows
\* and the document status the first run ended with
C27_SecondRunChangesNothing ==
  LET p == processing.previous
  IN (/\ processing.pc \in {"fulfilled", "rejected"}
      /\ p.raised # "never ran"
      /\ (p.raised = "extraction") = (processing.raised = "extraction")
      /\ files[TheDoc] = p.chunks
      /\ (p.raised = "nothing" /\ processing.raised = "nothing") =>
           processing.outcomes = p.outcomes) =>
       /\ document_chunks[TheDoc] = p.document_chunks
       /\ documents[TheDoc].status = p.status

\* the part of C28 about POST /hybrid: with both sub-searches failed the
\* response is the empty list with both searchTypes flags false
HybridFailureIsFlagged ==
  (hybrid.pc = "responded" /\ hybrid.textResults.status = "rejected"
     /\ hybrid.semanticResults.status = "rejected") =>
    /\ hybrid.finalResults = <<>>
    /\ hybrid.searchTypes = [text |-> FALSE, semantic |-> FALSE]

\* C28: a search that cannot produce any result (the embedding service or
\* the query failed) answers a valid request with an empty result set and
\* a flag that explains it, never with an error
C28_NoResultIsNotAnError ==
  /\ search.pc = "responded" =>
       /\ search.http = 200
       /\ search.body = "results"
  /\ search.pc # "thrown"
  /\ HybridFailureIsFlagged

\* loop l takes a job off the queue and starts its handler
TakesJob(l) ==
  /\ loops[l].pc = "pop"
  /\ loops'[l].pc = "check"
  /\ queue' = Tail(queue)
  /\ activeJobs' # activeJobs

\* C29: once the queue pop has raised in a processQueue loop (the broker
\* connection failed), that loop takes no further job
C29_BrokerFailureStopsPool ==
  [][\A l \in DOMAIN loops : loops[l].caught => ~TakesJob(l)]_vars

\* the handler of task t is inside processDocument, past its first UPDATE
Executing(t) == t.pc \in {"delete", "insert", "complete", "catch"}

\* C30: no document is processed by two workers at the same time: the
\* monitor does not put a document back on the queue while a worker is
\* executing processDocument for it, so no two runs of one document overlap
C30_OneWorkerPerDocument ==
  \A t, u \in activeJobs :
    (t # u /\ t.doc = u.doc) => ~(Executing(t) /\ Executing(u))

\* ======================================================================
\* Properties of the pipeline, the embedding client and the legacy
\* processor, continued
\* ======================================================================

Terminal(d) == d \in DOMAIN documents /\ Status(d) \in {"completed", "failed"}

\* C31: every uploaded document eventually reaches completed or failed,
\* also the one whose enqueue at upload failed (stated for the documents
\* table initDatabase creates and for a process that keeps running)
C31_EveryDocumentSettles ==
  \A d \in Docs :
    (columns = InitDatabaseColumns /\ d \in DOMAIN documents)
      ~> (Terminal(d) \/ crashes > 0)

\* the same with the columns the sweep's SELECT needs in place, for the
\* document that was never enqueued: the sweep takes it out of pending
NeverEnqueued(d) ==
  /\ d \in DOMAIN documents
  /\ Status(d) = "pending"
  /\ generation[d] = 0
  /\ QueuedIndices(d) = {}

UnqueuedRecoveredWithColumns ==
  \A d \in Docs :
    ("file_path" \in columns /\ timestampColumn # "none" /\ NeverEnqueued(d))
      ~> (QueuedIndices(d) # {} \/ crashes > 0)

\* the fetches a call of generateEmbedding made in attempt a, to one endpoint
FetchesOf(a, endpoint) ==
  {k \in 1..Len(embeddingCall.log) :
     /\ embeddingCall.log[k].attempt = a
     /\ embeddingCall.log[k].endpoint = endpoint}

\* attempt a got a 404 from POST /api/embeddings
PrimaryNotFound(a) ==
  \E k \in FetchesOf(a, "/api/embeddings") : embeddingCall.log[k].status = 404

\* the alternate call of attempt a is still in flight
AlternativePending(a) ==
  embeddingCall.pc = "alternative" /\ embeddingCall.attempt = a

\* the last fetch made went to the alternate endpoint
AlternativeAnswered ==
  /\ Called
  /\ embeddingCall.log # <<>>
  /\ embeddingCall.log[Len(embeddingCall.log)].endpoint = "/api/embed"

\* C32: within one attempt of generateEmbedding, a 404 from the primary
\* endpoint is followed by exactly one call of the alternate endpoint and no
\* other answer by any; the alternate's vector is returned when it succeeds,
\* and when it fails the attempt is over: the call throws or goes on with
\* the next attempt, inside the budget of maxRetries attempts
C32_AlternativeOncePerAttempt ==
  Called =>
    /\ \A a \in 1..maxRetries :
         /\ Cardinality(FetchesOf(a, "/api/embeddings")) <= 1
         /\ Cardinality(FetchesOf(a, "/api/embed")) =
              IF PrimaryNotFound(a) /\ ~AlternativePending(a) THEN 1 ELSE 0
    /\ embeddingCall.attempt <= maxRetries
    /\ AlternativeAnswered =>
         LET last == embeddingCall.log[Len(embeddingCall.log)]
         IN IF Alternative(embeddingCall.response).do = "return"
              THEN embeddingCall.pc = "returned"
              ELSE \/ embeddingCall.pc = "thrown"
                   \/ /\ embeddingCall.pc = "fetch"
                      /\ embeddingCall.attempt = last.attempt + 1

\* the alternate endpoint failed in attempt 1 and answered with a vector in
\* attempt 2, which the call returned
C32_Witness ==
  /\ embeddingCall.pc = "returned"
  /\ Len(embeddingCall.log) = 4
  /\ embeddingCall.log[2].endpoint = "/api/embed"
  /\ embeddingCall.log[2].status = 500
  /\ embeddingCall.log[4].endpoint = "/api/embed"
  /\ embeddingCall.log[4].attempt = 2

\* ======================================================================
\* The legacy DocumentProcessor's splitIntoChunks (services/jobProcessor.js)
\* and the indices processAndStoreChunks gives to what it returns.
\*
\* A string is kept as its runs of equal characters, in order:
\* "aaa. b" is <<[c |-> "a", n |-> 3], [c |-> ".", n |-> 1],
\* [c |-> " ", n |-> 1], [c |-> "b", n |-> 1]>>; neighbouring runs differ
\* in c, so two strings are equal exactly when their runs are.
\* ======================================================================

MaxSentences == 3     \* pieces the content given to splitIntoChunks is made of

chunkSize == 1000
chunkOverlap == 200

\* chunks.filter(chunk => chunk.length > 50)
MinChunkLength == 50

RECURSIVE length(_)
length(s) == IF s = <<>> THEN 0 ELSE Head(s).n + length(Tail(s))

\* s + t
concat(s, t) ==
  IF s = <<>> THEN t
  ELSE IF t = <<>> THEN s
  ELSE IF s[Len(s)].c = Head(t).c
    THEN SubSeq(s, 1, Len(s) - 1)
         \o <<[c |-> Head(t).c, n |-> s[Len(s)].n + Head(t).n]>>
         \o Tail(t)
  ELSE s \o t

\* s.substring(0, k)
RECURSIVE substring(_, _)
substring(s, k) ==
  IF k <= 0 \/ s = <<>> THEN <<>>
  ELSE IF Head(s).n <= k
    THEN <<Head(s)>> \o substring(Tail(s), k - Head(s).n)
  ELSE <<[c |-> Head(s).c, n |-> k]>>

\* s without its first k characters
RECURSIVE Drop(_, _)
Drop(s, k) ==
  IF k <= 0 \/ s = <<>> THEN s
  ELSE IF Head(s).n <= k THEN Drop(Tail(s), k - Head(s).n)
  ELSE <<[c |-> Head(s).c, n |-> Head(s).n - k]>> \o Tail(s)

\* the last k characters of s
Trailing(s, k) == Drop(s, length(s) - k)

\* s.trim(): the only white space of the model is the blank
trim(s) ==
  LET a == IF s # <<>> /\ Head(s).c = " " THEN Tail(s) ELSE s
  IN IF a # <<>> /\ a[Len(a)].c = " " THEN SubSeq(a, 1, Len(a) - 1) ELSE a

Terminators == {".", "!", "?"}

\* the string ends with a sentence terminator
Terminated(s) == s # <<>> /\ s[Len(s)].c \in Terminators

\* text.match(/[^\.!?]+[\.!?]+/g), run by run: cur is the match being
\* built, acc the matches found. Terminators with nothing before them are
\* skipped, and so is what follows the last terminator
RECURSIVE Scan(_, _, _)
Scan(runs, cur, acc) ==
  IF runs = <<>> THEN (IF Terminated(cur) THEN Append(acc, cur) ELSE acc)
  ELSE IF Head(runs).c \in Terminators
    THEN IF cur = <<>> THEN Scan(Tail(runs), <<>>, acc)
         ELSE Scan(Tail(runs), Append(cur, Head(runs)), acc)
  ELSE IF Terminated(cur)
    THEN Scan(Tail(runs), <<Head(runs)>>, Append(acc, cur))
  ELSE Scan(Tail(runs), Append(cur, Head(runs)), acc)

\* text.match(...) || [text]
Sentences(text) ==
  IF Scan(text, <<>>, <<>>) = <<>> THEN <<text>> ELSE Scan(text, <<>>, <<>>)

\* lengths of a sentence before its full stop: around the minimum, and
\* long enough for two or three of them to pass chunkSize
BodyLengths == {48, 49, 50, 600, 990}

Letters == {"a", "b"}

Blank(lead) == IF lead THEN <<[c |-> " ", n |-> 1]>> ELSE <<>>

\* the pieces a content is made of: sentences, with or without a blank in
\* front, and a stretch of text with no terminator
Pieces ==
  {Blank(lead) \o <<[c |-> l, n |-> n], [c |-> ".", n |-> 1]>> :
     lead \in BOOLEAN, l \in Letters, n \in BodyLengths}
  \cup {<<[c |-> "b", n |-> 30]>>}

RECURSIVE Join(_)
Join(pieces) ==
  IF pieces = <<>> THEN <<>> ELSE concat(Head(pieces), Join(Tail(pieces)))

\* the contents splitIntoChunks is called with
Contents == {Join(ps) : ps \in UNION {[1..n -> Pieces] : n \in 0..MaxSentences}}

\* chunks.filter(chunk => chunk.length > 50)
RECURSIVE filter(_)
filter(chunks) ==
  IF chunks = <<>> THEN <<>>
  ELSE IF length(Head(chunks)) > MinChunkLength
    THEN <<Head(chunks)>> \o filter(Tail(chunks))
  ELSE filter(Tail(chunks))

splitRest == <<columns, documents, files, document_chunks, generation, queue,
               activeJobs, isMonitoring, monitor, crashes, loops, enqueued,
               processing, embeddingCall, embeddingBatch, hybrid, search,
               corpus, chat, db, processing_jobs>>

SplitInit == PipelineIdle /\ OutsideIdle

\* splitIntoChunks(text) up to the for loop
SplitCall(text) ==
  /\ splitting.pc = "idle"
  /\ splitting' = [pc |-> "loop", sentences |-> Sentences(text), i |-> 0,
                   chunks |-> <<>>, currentChunk |-> <<>>,
                   currentLength |-> 0, result |-> <<>>, rows |-> <<>>]
  /\ UNCHANGED splitRest

\* one turn of the for loop
SplitSentence ==
  /\ splitting.pc = "loop"
  /\ splitting.i < Len(splitting.sentences)
  /\ LET sentence == splitting.sentences[splitting.i + 1]
         sentenceLength == length(sentence)
         currentChunk == splitting.currentChunk
         overlapText == substring(currentChunk, chunkOverlap)
     IN IF /\ splitting.currentLength + sentenceLength > chunkSize
           /\ currentChunk # <<>>
          THEN splitting' =
                 [splitting EXCEPT
                    !.i = @ + 1,
                    !.chunks = Append(@, trim(currentChunk)),
                    !.currentChunk = concat(overlapText, sentence),
                    !.currentLength = length(concat(overlapText, sentence))]
          ELSE splitting' =
                 [splitting EXCEPT
                    !.i = @ + 1,
                    !.currentChunk = concat(currentChunk, sentence),
                    !.currentLength = @ + sentenceLength]
  /\ UNCHANGED splitRest

\* after the loop: the last chunk is pushed if its trim is not empty, and
\* the filter's result is returned
SplitReturn ==
  /\ splitting.pc = "loop"
  /\ splitting.i = Len(splitting.sentences)
  /\ LET chunks == IF trim(splitting.currentChunk) # <<>>
                     THEN Append(splitting.chunks, trim(splitting.currentChunk))
                     ELSE splitting.chunks
     IN splitting' = [splitting EXCEPT !.pc = "returned", !.chunks = chunks,
                                       !.result = filter(chunks)]
  /\ UNCHANGED splitRest

\* processAndStoreChunks: chunks.map((content, index) => INSERT ... (index,
\* content, content.length))
SplitStore ==
  /\ splitting.pc = "returned"
  /\ splitting' =
       [splitting EXCEPT
          !.pc = "stored",
          !.rows = [k \in 1..Len(splitting.result) |->
                      [chunk_index |-> k - 1, content |-> splitting.result[k],
                       content_length |-> length(splitting.result[k])]]]
  /\ UNCHANGED splitRest

SplitNext ==
  \/ \E text \in Contents : SplitCall(text)
  \/ SplitSentence
  \/ SplitReturn
  \/ SplitStore

SplitSpec == SplitInit /\ [][SplitNext]_vars

\* the step closes a fragment at a size boundary
ClosesFragment ==
  /\ splitting.pc = "loop"
  /\ splitting'.pc = "loop"
  /\ Len(splitting'.chunks) = Len(splitting.chunks) + 1

\* C33: whenever a fragment is closed at a size boundary, the next fragment
\* starts as the last chunkOverlap characters of the fragment just closed
\* followed by the sentence that did not fit
C33_NextStartsWithTrailingOverlap ==
  [][ClosesFragment =>
       splitting'.currentChunk =
         concat(Trailing(splitting.currentChunk, chunkOverlap),
                splitting.sentences[splitting.i + 1])]_vars

\* the fragments of at least MinChunkLength characters, in order
RECURSIVE Surviving(_)
Surviving(chunks) ==
  IF chunks = <<>> THEN <<>>
  ELSE IF length(Head(chunks)) >= MinChunkLength
    THEN <<Head(chunks)>> \o Surviving(Tail(chunks))
  ELSE Surviving(Tail(chunks))

\* what is stored carries the indices 0, 1, ... in the order of the result
IndicesContiguous ==
  splitting.pc = "stored" =>
    /\ Len(splitting.rows) = Len(splitting.result)
    /\ \A k \in 1..Len(splitting.rows) :
         /\ splitting.rows[k].chunk_index = k - 1
         /\ splitting.rows[k].content = splitting.result[k]

\* C34: the split drops exactly the fragments whose trimmed length is below
\* MinChunkLength (one of exactly that length survives), and the indices
\* are given contiguously to the surviving fragments in order
C34_DropsOnlyShorterThanMinimum ==
  /\ splitting.pc \in {"returned", "stored"} =>
       splitting.result = Surviving(splitting.chunks)
  /\ IndicesContiguous

\* invocation m is past the column probe with a timestamp column found,
\* and rows match its WHERE clause
SweepFindsStuck(m) ==
  /\ monitor[m].pc = "select"
  /\ timestampColumn # "none"
  /\ StuckSet # {}

\* C35: the sweep tolerates the schema it finds: once the probe has found a
\* timestamp column, the absence of another documents column (file_path,
\* last_updated) does not end the sweep, which goes on to reset and requeue
\* the stuck documents it finds
C35_SweepToleratesSchema ==
  [][\A m \in Callers :
       (SweepFindsStuck(m) /\ monitor'[m] # monitor[m] /\ crashes' = crashes)
         => /\ monitor'[m].pc = "update"
            /\ monitor'[m].stuckDocs # <<>>]_vars

\* the rows of processing_jobs that belong to document d
JobsOf(d) == {k \in DOMAIN processing_jobs : processing_jobs[k].document_id = d}

\* no row that has reached completed or failed changes its status
TerminalJobsStable ==
  [][\A k \in DOMAIN processing_jobs :
       processing_jobs[k].status \in {"completed", "failed"}
         => /\ k \in DOMAIN processing_jobs'
            /\ processing_jobs'[k].status = processing_jobs[k].status]_vars

\* a job of document d is pushed onto the queue in this step
Enqueues(d) ==
  /\ Len(queue') = Len(queue) + 1
  /\ queue'[Len(queue')].documentId = d

\* C36: a ProcessingJob exists for a document from the moment the document
\* is enqueued, and a ProcessingJob that has reached completed or failed
\* never changes its status again
C36_JobLifecycle ==
  [][/\ \A d \in Docs : Enqueues(d) => JobsOf(d)' # {}
     /\ \A k \in DOMAIN processing_jobs :
          processing_jobs[k].status \in {"completed", "failed"}
            => /\ k \in DOMAIN processing_jobs'
               /\ processing_jobs'[k].status = processing_jobs[k].status]_vars

\* invocation m passes the guard in this step
PassesGuard(m) ==
  /\ monitor[m].pc = "entry"
  /\ monitor'[m].pc = "select"

\* C37: whenever no sweep is executing the flag isMonitoring is clear,
\* whichever way the last sweep ended, and so an invocation that arrives at
\* the guard while no sweep is executing is not skipped
C37_FlagClearedAfterEverySweep ==
  [][/\ Sweeping = {} => ~isMonitoring
     /\ Sweeping' = {} => ~isMonitoring'
     /\ \A m \in Callers :
          (/\ monitor[m].pc = "entry"
           /\ Sweeping = {}
           /\ monitor'[m] # monitor[m]
           /\ crashes' = crashes) => PassesGuard(m)]_vars

\* a sweep has requeued a document and ended, no process exit has cleared
\* the flag, and the next invocation is past the guard
C37_Witness ==
  /\ crashes = 0
  /\ \E d \in DOMAIN documents : documents[d].requeued >= 1
  /\ \E m \in Callers : monitor[m].pc = "select" /\ Sweeping = {m}
  /\ \A i \in 1..Len(queue) : queue[i].retryCount = 1
  /\ queue # <<>>

\* ---- the pool with its promise callbacks run: a settled handler's
\* .finally callback is not postponed for ever ----
Outcomes == {"fulfilled", "rejected"}

PoolFairness ==
  \A id \in 1..MaxJobs, outcome \in Outcomes :
    WF_vars(Settle([id |-> id, pc |-> outcome]))

PoolFairSpec == PoolSpec /\ PoolFairness

\* the handlers that have settled and whose id is still in activeJobs
Finished == {j \in activeJobs : j.pc \in Outcomes}

ActiveIds == {j.id : j \in activeJobs}

\* C38: the id of every handler that settles, fulfilled or rejected, is
\* removed from activeJobs, and activeJobs does not stay at
\* maxConcurrentJobs with finished handlers among its entries
C38_SettledJobsLeaveActiveJobs ==
  /\ \A id \in 1..MaxJobs, outcome \in Outcomes :
       ([id |-> id, pc |-> outcome] \in activeJobs) ~> (id \notin ActiveIds)
  /\ (Cardinality(activeJobs) >= maxConcurrentJobs)
       ~> (Cardinality(activeJobs) < maxConcurrentJobs \/ Finished = {})

\* activeJobs is at maxConcurrentJobs with finished handlers only, of both
\* outcomes, while a job waits in the queue
C38_Witness ==
  /\ Cardinality(activeJobs) = maxConcurrentJobs
  /\ Finished = activeJobs
  /\ \E j, k \in activeJobs : j.pc = "fulfilled" /\ k.pc = "rejected"
  /\ queue # <<>>

\* C39: whenever a document is completed, its chunk_count is the number of
\* rows document_chunks holds for it
C39_ChunkCountMatchesRows ==
  \A d \in DOMAIN documents :
    Status(d) = "completed" =>
      documents[d].chunk_count = Cardinality(document_chunks[d])

====
